---------------------------- MODULE Spec2Model ----------------------------
(***************************************************************************)
(* Verification model of the pursuit/evasion AI core of car-battle-bots    *)
(* ("Your Choice" variant): geometry and line of sight (utils.py), the     *)
(* occupancy grid and A* pathfinder (ai/pathfinding.py), the cover-point   *)
(* search and the defence FSM (ai/fsm.py).                                 *)
(*                                                                         *)
(* Numbers.  World coordinates are integers (lattice points of the         *)
(* screen).  Distances are compared by their squares, and a sample of a    *)
(* ray, start + (dx, dy) * k / sqrt(N), is compared with an integer        *)
(* exactly (LinCmp).  Where the code returns a point it computed with a    *)
(* unit vector, the inputs are drawn from positions for which that point   *)
(* is a lattice point (SpotExact, EvadeExact).  Path costs are in units of *)
(* 0.002 (1.0 = 500, 1.414 = 707); the A* heuristic sqrt(n) is kept as n,  *)
(* and g + sqrt(n) is compared exactly (SurdCmp).                          *)
(***************************************************************************)
EXTENDS Integers, Sequences, FiniteSets, TLC

VARIABLES
    call,                  \* the pure-function call under check (its inputs)
    ret,                   \* its result, or Pending before the call ran
    grid,                  \* AStar.grid: the set of blocked cells <<gx, gy>>
    grid_width,            \* AStar.grid_width
    grid_height,           \* AStar.grid_height
    current_state,         \* FSM.current_state
    patrol_points,         \* FSM.patrol_points
    current_patrol_index,  \* FSM.current_patrol_index
    last_target_pos,       \* FSM.last_target_pos
    current_hide_target,   \* FSM.current_hide_target
    state_entry_time,      \* FSM.state_entry_time
    now,                   \* pygame.time.get_ticks()
    obstacles,             \* the session's obstacle list
    obs,                   \* what the last FSM call saw and did (observation)
    last_change,           \* when current_state last changed, -1 before the first
    target_car,            \* AttackerAI.target_car
    path,                  \* AttackerAI.path
    current_waypoint,      \* AttackerAI.current_waypoint
    path_update_counter,   \* AttackerAI.path_update_counter
    attacker_pos,          \* AttackerAI.get_position(): the centre of the car
    defender,              \* the DefenderAI instance: x, y, vx, vy, target_car,
                           \* current_move_target
    pc,                    \* the step DefenderAI.update is at, "idle" between calls
    los_start_time,        \* game_loop's los_start_time
    winner                 \* game_loop's winner

fnVars  == <<call, ret>>
gridVars == <<grid, grid_width, grid_height>>
fsmVars == <<current_state, patrol_points, current_patrol_index,
             last_target_pos, current_hide_target, state_entry_time,
             now, obstacles, obs, last_change>>
attVars == <<target_car, path, current_waypoint, path_update_counter, attacker_pos>>
gameVars == <<defender, pc, los_start_time, winner>>
vars    == <<call, ret, grid, grid_width, grid_height, current_state, patrol_points,
             current_patrol_index, last_target_pos, current_hide_target,
             state_entry_time, now, obstacles, obs, last_change,
             target_car, path, current_waypoint, path_update_counter, attacker_pos,
             defender, pc, los_start_time, winner>>

\* Python's None where a position (a pair) is expected
None    == <<>>
\* no call under check / the call has not run yet
NoCall  == [fn |-> "none"]
Pending == [done |-> FALSE]

-----------------------------------------------------------------------------
(* constants.py *)
SCREEN_WIDTH  == 1000
SCREEN_HEIGHT == 800
GRID_SIZE     == 20
CAR_WIDTH     == 30
CAR_HEIGHT    == 40
OBSTACLE_SIZE == 40
SAFE_DISTANCE == 100
HIDE_TRIGGER_DISTANCE == 400
VERY_CLOSE_DISTANCE   == 80
\* CAR_HEIGHT * 1.5
BUFFER_BEHIND_OBSTACLE == (CAR_HEIGHT * 3) \div 2
MAX_HIDE_SEARCH_OBSTACLES == 5

-----------------------------------------------------------------------------
(* Integer helpers *)
Min(a, b) == IF a <= b THEN a ELSE b
Max(a, b) == IF a >= b THEN a ELSE b
Abs(a)    == IF a >= 0 THEN a ELSE -a

RECURSIVE SqrtIter(_, _, _)
SqrtIter(n, lo, hi) ==
    IF lo >= hi THEN lo
    ELSE LET mid == (lo + hi + 1) \div 2
         IN  IF mid * mid <= n THEN SqrtIter(n, mid, hi)
                               ELSE SqrtIter(n, lo, mid - 1)

\* floor(sqrt(n))
ISqrt(n) == SqrtIter(n, 0, IF n < 1048576 THEN Min(n, 1023) ELSE 46340)

Sign(a) == IF a > 0 THEN 1 ELSE IF a < 0 THEN -1 ELSE 0

\* the sign of a/b - c/d for a, c >= 0 and b, d > 0, by continued fractions
\* (no product is formed, so nothing overflows)
RECURSIVE FracCmp(_, _, _, _)
FracCmp(a, b, c, d) ==
    LET qa == a \div b
        qc == c \div d
        ra == a % b
        rc == c % d
    IN  IF qa # qc THEN Sign(qa - qc)
        ELSE IF ra = 0 /\ rc = 0 THEN 0
        ELSE IF ra = 0 THEN -1
        ELSE IF rc = 0 THEN 1
        ELSE FracCmp(d, rc, b, ra)

\* the sign of a * b - c * d for a, b, c, d >= 0
ProdCmp(a, b, c, d) ==
    IF a = 0 \/ b = 0 THEN (IF c = 0 \/ d = 0 THEN 0 ELSE -1)
    ELSE IF c = 0 \/ d = 0 THEN 1
    ELSE FracCmp(a, c, d, b)

\* the sign of E - T * sqrt(Q) for E, T > 0 and 0 <= Q < 2^31
RootCmp(E, T, Q) ==
    LET q == E \div T
        r == E % T
    IN  IF q > 46340 THEN 1
        ELSE LET M == Q - q * q
             IN  IF M < 0 THEN 1
                 ELSE IF (q + 1) * (q + 1) <= Q THEN -1
                 ELSE ProdCmp(r, 2 * q * T + r, M * T, T)

\* the sign of b - a * sqrt(N) for integers a, b and N >= 0
LinCmp(b, a, N) ==
    IF a = 0 THEN Sign(b)
    ELSE IF a > 0 THEN (IF b <= 0 THEN -1 ELSE RootCmp(b, a, N))
    ELSE (IF b >= 0 THEN 1 ELSE -RootCmp(-b, -a, N))

\* the sign of sqrt(P) - sqrt(Q) - D for P, Q >= 0 and D >= 0
SurdCmpPos(P, Q, D) ==
    IF D = 0 THEN Sign(P - Q)
    ELSE IF P <= Q THEN -1
    ELSE LET E == P - Q - D * D
         IN  IF E < 0 THEN -1
             ELSE IF E = 0 THEN (IF Q = 0 THEN 0 ELSE -1)
             ELSE RootCmp(E, 2 * D, Q)

Pt(x, y) == <<x, y>>

\* squared Euclidean distance: distance(...)^2
Dist2(a, b) == (b[1] - a[1]) * (b[1] - a[1]) + (b[2] - a[2]) * (b[2] - a[2])

\* utils.distance, for points an integer distance apart
distance(a, b) == ISqrt(Dist2(a, b))

\* the distance between a and b is an integer: sqrt is exact
ExactLen(a, b) == distance(a, b) * distance(a, b) = Dist2(a, b)

\* utils.normalize_vector: the unit vector (nx/mag, ny/mag), kept as the
\* numerators and the common denominator; the zero vector when mag < 0.0001
normalize_vector(x, y) ==
    LET mag == ISqrt(x * x + y * y)
    IN  IF mag = 0 THEN [nx |-> 0, ny |-> 0, mag |-> 1]
                   ELSE [nx |-> x, ny |-> y, mag |-> mag]

\* utils.world_to_grid: int(x // GRID_SIZE); \div floors like Python's //
world_to_grid(x, y) == <<x \div GRID_SIZE, y \div GRID_SIZE>>

\* utils.grid_to_world: the centre of the cell
grid_to_world(gx, gy) ==
    <<gx * GRID_SIZE + GRID_SIZE \div 2, gy * GRID_SIZE + GRID_SIZE \div 2>>

-----------------------------------------------------------------------------
(* Obstacles: obstacle.py.  An obstacle is [x, y, size]; its rect is the   *)
(* square with top-left (x, y).                                            *)
Obstacle(x, y) == [x |-> x, y |-> y, size |-> OBSTACLE_SIZE]

rect_left(o)   == o.x
rect_top(o)    == o.y
rect_right(o)  == o.x + o.size
rect_bottom(o) == o.y + o.size
rect_center(o) == <<o.x + o.size \div 2, o.y + o.size \div 2>>

\* pygame.Rect.collidepoint for the point start_pos + (ax, ay) / sqrt(N):
\* left <= x < right and top <= y < bottom
collidepoint(o, start_pos, ax, ay, N) ==
    /\ LinCmp(ax, rect_left(o) - start_pos[1], N) >= 0
    /\ LinCmp(ax, rect_right(o) - start_pos[1], N) < 0
    /\ LinCmp(ay, rect_top(o) - start_pos[2], N) >= 0
    /\ LinCmp(ay, rect_bottom(o) - start_pos[2], N) < 0

-----------------------------------------------------------------------------
(* utils.check_line_of_sight: TRUE when blocked.  With N = dx^2 + dy^2     *)
(* the samples are start_pos + (dx, dy) * current_dist / sqrt(N).          *)
step_size == 5

\* the first sample of the ray: current_dist = step_size
first_sample == step_size

\* variant for sensitivity: the start point is sampled too
ray_samples_from_start(N) ==
    {current_dist \in {k * step_size : k \in 0..(ISqrt(N) \div step_size + 1)} :
        current_dist * current_dist < N}

\* the values current_dist takes in the ray loop: step_size, 2 * step_size,
\* ... while current_dist < line_dist (line_dist = sqrt(N))
ray_samples(N) ==
    {current_dist \in {k * step_size : k \in 1..(ISqrt(N) \div step_size + 1)} :
        /\ current_dist >= first_sample
        /\ current_dist * current_dist < N}

\* the ray loop: TRUE at the first sample inside an obstacle's rect, FALSE
\* when the samples are used up
ray_loop(start_pos, dx, dy, N, obsts) ==
    \E i \in 1..Len(obsts) :
        \E current_dist \in ray_samples(N) :
            collidepoint(obsts[i], start_pos, dx * current_dist,
                         dy * current_dist, N)

check_line_of_sight(start_pos, end_pos, obsts) ==
    LET dx == end_pos[1] - start_pos[1]
        dy == end_pos[2] - start_pos[2]
        N  == Dist2(start_pos, end_pos)
    IN  IF N < 1 THEN FALSE
        ELSE ray_loop(start_pos, dx, dy, N, obsts)

-----
(* ai/pathfinding.py: class AStar.  A grid is the set G of its blocked     *)
(* cells; W and H are grid_width and grid_height.                          *)

\* self.obstacle_padding
obstacle_padding == 1

\* world_to_grid of a coordinate given in tenths (obstacle edge -/+ 0.1)
world_to_grid_tenths(t) == t \div (10 * GRID_SIZE)

\* the cells one obstacle marks: its cell range, padded, inside the grid
obstacle_cells(o, W, H) ==
    LET min_gx == world_to_grid_tenths(10 * rect_left(o) - 1)
        min_gy == world_to_grid_tenths(10 * rect_top(o) - 1)
        max_gx == world_to_grid_tenths(10 * rect_right(o) + 1)
        max_gy == world_to_grid_tenths(10 * rect_bottom(o) + 1)
    IN  {c \in ((min_gx - obstacle_padding)..(max_gx + obstacle_padding))
                  \X ((min_gy - obstacle_padding)..(max_gy + obstacle_padding)) :
            /\ 0 <= c[1] /\ c[1] < W
            /\ 0 <= c[2] /\ c[2] < H}

\* variant for sensitivity: the grid is not cleared, the cells blocked
\* before stay blocked
reset_grid_skipped == grid

\* AStar.reset
reset_grid == {}

\* AStar.update_obstacles: reset, then mark every obstacle's padded range
update_obstacles(obsts, W, H) ==
    reset_grid \cup UNION {obstacle_cells(obsts[i], W, H) : i \in 1..Len(obsts)}

\* self.directions, in the order they are explored: N, E, S, W, NE, SE, SW, NW
directions ==
    << <<0, -1>>, <<1, 0>>, <<0, 1>>, <<-1, 0>>,
       <<1, -1>>, <<1, 1>>, <<-1, 1>>, <<-1, -1>> >>

\* self.move_costs: 1.0 and 1.414, in units of 0.002
straight_cost == 500
diagonal_cost == 707

move_costs(d) == IF d[1] = 0 \/ d[2] = 0 THEN straight_cost ELSE diagonal_cost

\* variant for sensitivity: an estimate ten times the distance
heuristic_inflated(a, b) ==
    100 * ((a[1] - b[1]) * (a[1] - b[1]) + (a[2] - b[2]) * (a[2] - b[2]))

\* AStar.heuristic: math.hypot(dx, dy), kept as its square dx^2 + dy^2
heuristic(a, b) ==
    (a[1] - b[1]) * (a[1] - b[1]) + (a[2] - b[2]) * (a[2] - b[2])

\* the sign of (g1 + sqrt(n1)) - (g2 + sqrt(n2)), g in units of 0.002:
\* how two f scores (or two queue priorities) compare
SurdCmp(g1, n1, g2, n2) ==
    LET P == straight_cost * straight_cost * n1
        Q == straight_cost * straight_cost * n2
    IN  IF g2 - g1 >= 0 THEN SurdCmpPos(P, Q, g2 - g1)
                        ELSE -SurdCmpPos(Q, P, g1 - g2)

in_bounds(n, W, H) == 0 <= n[1] /\ n[1] < W /\ 0 <= n[2] /\ n[2] < H

\* variant for sensitivity: no cell counts as blocked
is_blocked_never(G, n) == FALSE

\* self.grid[x][y] == 1
is_blocked(G, n) == n \in G

\* the clamp of find_path: max(0, min(v, size - 1)) on both coordinates
clamp_node(n, W, H) == <<Max(0, Min(n[1], W - 1)), Max(0, Min(n[2], H - 1))>>

\* heapq's order of the A* entries (f, h, node), an entry being
\* <<g, n, x, y>> with f = g + sqrt(n) and h = sqrt(n)
OpenLess(s, t) ==
    LET less(c) ==
            \/ c < 0
            \/ c = 0 /\ s[2] < t[2]
            \/ c = 0 /\ s[2] = t[2] /\ s[3] < t[3]
            \/ c = 0 /\ s[2] = t[2] /\ s[3] = t[3] /\ s[4] < t[4]
    IN  less(SurdCmp(s[1], s[2], t[1], t[2]))

\* heapq's order of the nearest-free-cell entries (prio, dist, node), an
\* entry being <<dist, n, x, y>> with prio = dist + sqrt(n)
QueueLess(s, t) ==
    LET less(c) ==
            \/ c < 0
            \/ c = 0 /\ s[1] < t[1]
            \/ c = 0 /\ s[1] = t[1] /\ s[3] < t[3]
            \/ c = 0 /\ s[1] = t[1] /\ s[3] = t[3] /\ s[4] < t[4]
    IN  less(SurdCmp(s[1], s[2], t[1], t[2]))

\* heapq.heappop: the least entry
open_min(heap)  == CHOOSE e \in heap : \A o \in heap : o = e \/ OpenLess(e, o)
queue_min(heap) == CHOOSE e \in heap : \A o \in heap : o = e \/ QueueLess(e, o)

\* variant for sensitivity: no cell is too far to be expanded
too_far_never(dist, search_radius) == FALSE

\* dist >= search_radius ("stop searching if too far"), dist in units of 0.002
too_far(dist, search_radius) == dist >= search_radius * straight_cost

\* one pass of the while loop of AStar._find_nearest_free_cell over the
\* priority queue of <<dist, n, x, y>> (visited is marked when a cell is
\* queued): the free cell found (None when the popped cell is blocked), the
\* queue and the visited set the pass leaves, the popped cell with its
\* distance, and whether its neighbours were explored
nearest_pop(queue, visited, target_node, search_radius, G, W, H) ==
    LET \* the body of the loop for the popped entry e
        pop(e) ==
            LET dist == e[1]
                node == <<e[3], e[4]>>
                rest == queue \ {e}
                fresh == {i \in 1..Len(directions) :
                             LET nb == <<node[1] + directions[i][1],
                                         node[2] + directions[i][2]>>
                             IN  in_bounds(nb, W, H) /\ nb \notin visited}
                pushed == {LET nb == <<node[1] + directions[i][1],
                                       node[2] + directions[i][2]>>
                               neighbor_dist == dist + move_costs(directions[i])
                           IN  <<neighbor_dist, heuristic(nb, target_node),
                                 nb[1], nb[2]>> : i \in fresh}
                seen   == {<<p[3], p[4]>> : p \in pushed}
            IN  IF ~is_blocked(G, node)
                THEN [found |-> node, queue |-> rest, visited |-> visited,
                      node |-> node, dist |-> dist, explored |-> FALSE]
                ELSE IF too_far(dist, search_radius)
                     THEN [found |-> None, queue |-> rest, visited |-> visited,
                           node |-> node, dist |-> dist, explored |-> FALSE]
                ELSE [found |-> None, queue |-> rest \cup pushed,
                      visited |-> visited \cup seen,
                      node |-> node, dist |-> dist, explored |-> TRUE]
    IN  CHOOSE r \in {pop(e) : e \in {queue_min(queue)}} : TRUE

\* the while loop of AStar._find_nearest_free_cell
RECURSIVE nearest_loop(_, _, _, _, _, _, _)
nearest_loop(queue, visited, target_node, search_radius, G, W, H) ==
    IF queue = {} THEN None
    ELSE LET \* after the pass p
             next(p) ==
                 IF p.found # None THEN p.found
                 ELSE nearest_loop(p.queue, p.visited, target_node,
                                   search_radius, G, W, H)
         IN  next(nearest_pop(queue, visited, target_node, search_radius,
                              G, W, H))

\* variant for sensitivity: the blocked cell itself is taken
nearest_cell_unchecked(start_node, target_node, G, W, H) == start_node

_find_nearest_free_cell(start_node, target_node, G, W, H) ==
    nearest_loop({<<0, heuristic(start_node, target_node),
                    start_node[1], start_node[2]>>},
                 {start_node}, target_node, Max(W, H) \div 2, G, W, H)

\* AStar._reconstruct_path: walk came_from back to the start, then reverse
RECURSIVE _reconstruct_path(_, _)
_reconstruct_path(came_from, current_node) ==
    IF current_node = None THEN <<>>
    ELSE Append(_reconstruct_path(came_from, came_from[current_node]),
                grid_to_world(current_node[1], current_node[2]))

\* one neighbour of the node being expanded (the body of the for loop):
\* st = [open, closed, came_from, g_score]
explore_neighbor(st, current_node, d, end_node, G, W, H) ==
    LET nb == <<current_node[1] + d[1], current_node[2] + d[2]>>
        tentative_g == st.g_score[current_node] + move_costs(d)
    IN  IF ~in_bounds(nb, W, H) THEN st
        ELSE IF is_blocked(G, nb) THEN st
        ELSE IF nb \in DOMAIN st.g_score /\ ~(tentative_g < st.g_score[nb]) THEN st
        ELSE LET h_score == heuristic(nb, end_node)
             IN  [st EXCEPT
                    !.came_from = [n \in DOMAIN st.came_from \cup {nb} |->
                                      IF n = nb THEN current_node ELSE st.came_from[n]],
                    !.g_score = [n \in DOMAIN st.g_score \cup {nb} |->
                                      IF n = nb THEN tentative_g ELSE st.g_score[n]],
                    !.open = st.open \cup {<<tentative_g, h_score, nb[1], nb[2]>>}]

RECURSIVE explore_neighbors(_, _, _, _, _, _, _)
explore_neighbors(st, current_node, i, end_node, G, W, H) ==
    IF i > Len(directions) THEN st
    ELSE LET \* the state after the i-th direction, evaluated once
             after == {explore_neighbor(st, current_node, directions[i],
                                        end_node, G, W, H)}
         IN  CHOOSE r \in {explore_neighbors(s, current_node, i + 1,
                                             end_node, G, W, H) : s \in after} : TRUE

\* variant for sensitivity: no popped node counts as processed
in_closed_set_never(closed_set, current_node) == FALSE

\* current_node in closed_set
in_closed_set(closed_set, current_node) == current_node \in closed_set

\* one pass of the A* main loop of find_path: whether the goal was popped
\* (reached) and the path then returned, the search state the pass leaves,
\* the popped node, and whether its neighbours were explored
astar_pop(st, end_node, G, W, H) ==
    LET \* the body of the loop for the popped entry e
        pop(e) ==
            LET current_node == <<e[3], e[4]>>
                popped == [st EXCEPT !.open = st.open \ {e}]
            IN  IF current_node = end_node
                THEN [reached |-> TRUE,
                      path |-> _reconstruct_path(st.came_from, current_node),
                      st |-> popped, node |-> current_node, explored |-> FALSE]
                ELSE IF in_closed_set(st.closed, current_node)
                     THEN [reached |-> FALSE, path |-> <<>>, st |-> popped,
                           node |-> current_node, explored |-> FALSE]
                ELSE [reached |-> FALSE, path |-> <<>>,
                      st |-> explore_neighbors(
                                 [popped EXCEPT
                                     !.closed = popped.closed \cup {current_node}],
                                 current_node, 1, end_node, G, W, H),
                      node |-> current_node, explored |-> TRUE]
    IN  CHOOSE r \in {pop(e) : e \in {open_min(st.open)}} : TRUE

\* the A* main loop of find_path
RECURSIVE astar_loop(_, _, _, _, _)
astar_loop(st, end_node, G, W, H) ==
    IF st.open = {} THEN <<>>
    ELSE LET \* after the pass p
             next(p) ==
                 IF p.reached THEN p.path
                 ELSE astar_loop(p.st, end_node, G, W, H)
         IN  next(astar_pop(st, end_node, G, W, H))

\* variant for sensitivity: no path when start and end coincide
single_point_path_empty(end_node) == <<>>

\* [grid_to_world(end_node[0], end_node[1])]: the path is just the destination
single_point_path(end_node) == <<grid_to_world(end_node[1], end_node[2])>>

\* AStar.find_path: the path as a sequence of world points, <<>> when none
find_path(start_pos, end_pos, G, W, H) ==
    LET start0 == clamp_node(world_to_grid(start_pos[1], start_pos[2]), W, H)
        end0   == clamp_node(world_to_grid(end_pos[1], end_pos[2]), W, H)
        start_is_obstacle == is_blocked(G, start0)
        end_is_obstacle   == is_blocked(G, end0)
        \* the search, once both end points are settled
        search(start_node, end_node) ==
            IF end_node = None THEN <<>>
            ELSE IF start_node = end_node
                 THEN single_point_path(end_node)
            ELSE LET start_h == heuristic(start_node, end_node)
                 IN  astar_loop(
                         [open      |-> {<<0, start_h, start_node[1], start_node[2]>>},
                          closed    |-> {},
                          came_from |-> [n \in {start_node} |-> None],
                          g_score   |-> [n \in {start_node} |-> 0]],
                         end_node, G, W, H)
        \* the rest of the call, once the start is settled
        from(start_node) ==
            IF start_node = None THEN <<>>
            ELSE search(start_node,
                        IF end_is_obstacle
                        THEN _find_nearest_free_cell(end0, start_node, G, W, H)
                        ELSE end0)
    IN  from(IF start_is_obstacle
             THEN _find_nearest_free_cell(start0, end0, G, W, H)
             ELSE start0)

-----------------------------------------------------------------------------
(* ai/fsm.py: the cover-point search.  Positions are lattice points; the   *)
(* inputs are drawn from positions for which the computed spot is one too  *)
(* (SpotExact).  Distances are compared by their squares.                  *)

\* FSM._is_safe: the line of sight from the player to the position is blocked
_is_safe(defense_pos, player_pos, obsts) ==
    check_line_of_sight(player_pos, defense_pos, obsts)

\* max_relevant_dist = HIDE_TRIGGER_DISTANCE * 1.5
max_relevant_dist == (HIDE_TRIGGER_DISTANCE * 3) \div 2

\* the filter of the first loop: the obstacle is within max_relevant_dist of
\* the defender, and (dist_ply_obs < dist_ply_def * 1.2 or
\* dist_def_obs < dist_ply_def)
is_candidate(o, defense_pos, player_pos) ==
    LET dist_def_obs2 == Dist2(defense_pos, rect_center(o))
        dist_ply_obs2 == Dist2(player_pos, rect_center(o))
        dist_ply_def2 == Dist2(player_pos, defense_pos)
    IN  /\ ~(dist_def_obs2 > max_relevant_dist * max_relevant_dist)
        /\ \/ 25 * dist_ply_obs2 < 36 * dist_ply_def2
           \/ dist_def_obs2 < dist_ply_def2

\* candidate_obstacles, as indices into the obstacle list
candidate_obstacles(defense_pos, player_pos, obsts) ==
    {i \in 1..Len(obsts) : is_candidate(obsts[i], defense_pos, player_pos)}

\* The candidates are sorted by score = 0.6 * dist_def_obs + 0.4 * angle_deg
\* (an arc cosine).  The score is not computed: every order of the
\* candidates is admitted as the sorted list.
Rankings(S) ==
    {r \in [1..Cardinality(S) -> S] :
        \A i, j \in 1..Cardinality(S) : i # j => r[i] # r[j]}

\* variant for sensitivity: the buffer measured from the obstacle's centre
hide_buffer_from_center(o) == BUFFER_BEHIND_OBSTACLE

\* buffer = obs.size / 2.0 + BUFFER_BEHIND_OBSTACLE
hide_buffer(o) == o.size \div 2 + BUFFER_BEHIND_OBSTACLE

\* the point behind the obstacle, seen from the player:
\* obs_center + normalize(obs_center - player_pos) * buffer
potential_spot(o, player_pos) ==
    LET c == rect_center(o)
        n == normalize_vector(c[1] - player_pos[1], c[2] - player_pos[2])
    IN  <<c[1] + (n.nx * hide_buffer(o)) \div n.mag,
          c[2] + (n.ny * hide_buffer(o)) \div n.mag>>

\* the divisions of potential_spot are exact
SpotExact(o, player_pos) ==
    LET c == rect_center(o)
        n == normalize_vector(c[1] - player_pos[1], c[2] - player_pos[2])
    IN  /\ ExactLen(player_pos, c)
        /\ (n.nx * hide_buffer(o)) % n.mag = 0
        /\ (n.ny * hide_buffer(o)) % n.mag = 0

\* margin = 10
hide_margin == 10

\* variant for sensitivity: no margin test
in_margin_any(spot) == TRUE

\* margin < hide_x < SCREEN_WIDTH - margin and
\* margin < hide_y < SCREEN_HEIGHT - margin
in_margin(spot) ==
    /\ hide_margin < spot[1] /\ spot[1] < SCREEN_WIDTH - hide_margin
    /\ hide_margin < spot[2] /\ spot[2] < SCREEN_HEIGHT - hide_margin

\* variant for sensitivity: the first valid spot in score order is taken
find_best_hiding_spot_first_ranked(defense_pos, player_pos, obsts, ranked) ==
    LET top   == SubSeq(ranked, 1, Min(Len(ranked), MAX_HIDE_SEARCH_OBSTACLES))
        spot(k) == potential_spot(obsts[top[k]], player_pos)
        potential_spots ==
            {k \in 1..Len(top) :
                /\ in_margin(spot(k))
                /\ _is_safe(spot(k), player_pos, obsts)}
    IN  IF potential_spots = {} THEN None
        ELSE spot(CHOOSE k \in potential_spots : \A j \in potential_spots : k <= j)

\* FSM.find_best_hiding_spot; ranked is the sorted candidate list
find_best_hiding_spot(defense_pos, player_pos, obsts, ranked) ==
    LET top   == SubSeq(ranked, 1, Min(Len(ranked), MAX_HIDE_SEARCH_OBSTACLES))
        spot(k) == potential_spot(obsts[top[k]], player_pos)
        \* potential_spots: inside the margin and hidden from the player
        potential_spots ==
            {k \in 1..Len(top) :
                /\ in_margin(spot(k))
                /\ _is_safe(spot(k), player_pos, obsts)}
        dist_to_spot2(k) == Dist2(defense_pos, spot(k))
    IN  IF potential_spots = {} THEN None
        ELSE \* the stable sort by distance: the first of the nearest
             LET best == CHOOSE k \in potential_spots :
                            \A j \in potential_spots :
                                \/ dist_to_spot2(k) < dist_to_spot2(j)
                                \/ dist_to_spot2(k) = dist_to_spot2(j) /\ k <= j
             IN  spot(best)

-----------------------------------------------------------------------------
(* ai/fsm.py: class FSM.  self is the record of the instance's fields;     *)
(* ticks is pygame.time.get_ticks().  A handler returns the fields it      *)
(* leaves behind and its target position.                                  *)
DefenseState == {"IDLE", "EVADE", "PATROL", "HIDE", "RETURN_TO_SAFE_AREA"}

\* self.min_state_time
min_state_time == 500

\* variant for sensitivity: a state change that keeps the cached hide target
change_state_keeping_target(self, next_state, ticks) ==
    IF self.current_state # next_state
    THEN [self EXCEPT !.current_state = next_state, !.state_entry_time = ticks]
    ELSE self

\* FSM.change_state
change_state(self, next_state, ticks) ==
    IF self.current_state # next_state
    THEN [self EXCEPT !.current_state = next_state,
                      !.state_entry_time = ticks,
                      !.current_hide_target = None]
    ELSE self

\* FSM.set_patrol_points
set_patrol_points(self, points) ==
    [self EXCEPT !.patrol_points = points, !.current_patrol_index = 0]

\* variant for sensitivity: without a route the defender heads for the safe
\* area
patrol_or_return(self) ==
    IF self.patrol_points # <<>> THEN "PATROL" ELSE "RETURN_TO_SAFE_AREA"

\* DefenseState.PATROL if self.patrol_points else DefenseState.IDLE
patrol_or_idle(self) == IF self.patrol_points # <<>> THEN "PATROL" ELSE "IDLE"

\* variant for sensitivity: no dwell time
allow_transition_always(time_in_state) == TRUE

\* allow_transition = time_in_state >= self.min_state_time
allow_transition(time_in_state) == time_in_state >= min_state_time

\* variant for sensitivity: no very-close override
very_close_never(dist2) == FALSE

\* dist_to_player < VERY_CLOSE_DISTANCE
very_close(dist2) == dist2 < VERY_CLOSE_DISTANCE * VERY_CLOSE_DISTANCE

\* variant for sensitivity: no hide trigger
within_hide_trigger_never(dist2) == FALSE

\* dist_to_player < HIDE_TRIGGER_DISTANCE
within_hide_trigger(dist2) == dist2 < HIDE_TRIGGER_DISTANCE * HIDE_TRIGGER_DISTANCE

\* dist_to_player > HIDE_TRIGGER_DISTANCE * 1.2
beyond_hide_release(dist2) ==
    25 * dist2 > 36 * HIDE_TRIGGER_DISTANCE * HIDE_TRIGGER_DISTANCE

\* variant for sensitivity: the threat never counts as far away
beyond_hysteresis_never(dist2) == FALSE

\* dist_to_player > HIDE_TRIGGER_DISTANCE * 1.1
beyond_hysteresis(dist2) ==
    100 * dist2 > 121 * HIDE_TRIGGER_DISTANCE * HIDE_TRIGGER_DISTANCE

\* variant for sensitivity: the rules without the last one (Patrol or Idle
\* to Hide)
next_state_no_patrol_rule(self, dist2, is_currently_safe, allow) ==
    LET cur == self.current_state
    IN  IF very_close(dist2) THEN "EVADE"
        ELSE IF ~allow THEN cur
        ELSE IF ~is_currently_safe /\ within_hide_trigger(dist2) THEN "HIDE"
        ELSE IF is_currently_safe /\ cur = "HIDE"
             THEN (IF beyond_hide_release(dist2) THEN patrol_or_idle(self)
                                                 ELSE "HIDE")
        ELSE IF cur = "HIDE" /\ ~is_currently_safe THEN "HIDE"
        ELSE IF beyond_hysteresis(dist2)
             THEN (IF cur # "PATROL" /\ cur # "IDLE" THEN patrol_or_idle(self)
                                                     ELSE cur)
        ELSE cur

\* variant for sensitivity: the rules without the one that keeps an exposed
\* defender in Hide
next_state_no_rehide_rule(self, dist2, is_currently_safe, allow) ==
    LET cur == self.current_state
    IN  IF very_close(dist2) THEN "EVADE"
        ELSE IF ~allow THEN cur
        ELSE IF ~is_currently_safe /\ within_hide_trigger(dist2) THEN "HIDE"
        ELSE IF is_currently_safe /\ cur = "HIDE"
             THEN (IF beyond_hide_release(dist2) THEN patrol_or_idle(self)
                                                 ELSE "HIDE")
        ELSE IF beyond_hysteresis(dist2)
             THEN (IF cur # "PATROL" /\ cur # "IDLE" THEN patrol_or_idle(self)
                                                     ELSE cur)
        ELSE IF (cur = "PATROL" \/ cur = "IDLE") /\ within_hide_trigger(dist2)
             THEN "HIDE"
        ELSE cur

\* variant for sensitivity: with the threat far away every state but Patrol
\* gives way to Patrol or Idle, Idle too
next_state_idle_to_patrol(self, dist2, is_currently_safe, allow) ==
    LET cur == self.current_state
    IN  IF very_close(dist2) THEN "EVADE"
        ELSE IF ~allow THEN cur
        ELSE IF ~is_currently_safe /\ within_hide_trigger(dist2) THEN "HIDE"
        ELSE IF is_currently_safe /\ cur = "HIDE"
             THEN (IF beyond_hide_release(dist2) THEN patrol_or_idle(self)
                                                 ELSE "HIDE")
        ELSE IF cur = "HIDE" /\ ~is_currently_safe THEN "HIDE"
        ELSE IF beyond_hysteresis(dist2)
             THEN (IF cur # "PATROL" THEN patrol_or_idle(self) ELSE cur)
        ELSE IF (cur = "PATROL" \/ cur = "IDLE") /\ within_hide_trigger(dist2)
             THEN "HIDE"
        ELSE cur

\* the transition rules of FSM.update: next_state
next_state(self, dist2, is_currently_safe, allow) ==
    LET cur == self.current_state
    IN  IF very_close(dist2) THEN "EVADE"
        ELSE IF ~allow THEN cur
        ELSE IF ~is_currently_safe /\ within_hide_trigger(dist2) THEN "HIDE"
        ELSE IF is_currently_safe /\ cur = "HIDE"
             THEN (IF beyond_hide_release(dist2) THEN patrol_or_idle(self)
                                                 ELSE "HIDE")
        ELSE IF cur = "HIDE" /\ ~is_currently_safe THEN "HIDE"
        ELSE IF beyond_hysteresis(dist2)
             THEN (IF cur # "PATROL" /\ cur # "IDLE" THEN patrol_or_idle(self)
                                                     ELSE cur)
        ELSE IF (cur = "PATROL" \/ cur = "IDLE") /\ within_hide_trigger(dist2)
             THEN "HIDE"
        ELSE cur

\* FSM.handle_idle
handle_idle(self, defense_pos) == [self |-> self, target |-> defense_pos]

\* waypoint_radius
waypoint_radius == 30

\* dist_to_target < waypoint_radius, for the current patrol point
at_waypoint(self, defense_pos) ==
    /\ self.patrol_points # <<>>
    /\ Dist2(defense_pos, self.patrol_points[self.current_patrol_index + 1])
           < waypoint_radius * waypoint_radius

\* variant for sensitivity: the index is advanced without wrapping around
handle_patrol_no_wrap(self, defense_pos, ticks) ==
    IF self.patrol_points = <<>>
    THEN [self |-> change_state(self, "IDLE", ticks), target |-> defense_pos]
    ELSE LET target == self.patrol_points[self.current_patrol_index + 1]
         IN  IF Dist2(defense_pos, target) < waypoint_radius * waypoint_radius
             THEN LET index == self.current_patrol_index + 1
                  IN  [self |-> [self EXCEPT !.current_patrol_index = index],
                       target |-> target]
             ELSE [self |-> self, target |-> target]

\* variant for sensitivity: without a route the patrol handler stays put and
\* keeps the state
handle_patrol_keeps_state(self, defense_pos, ticks) ==
    IF self.patrol_points = <<>>
    THEN [self |-> self, target |-> defense_pos]
    ELSE LET target == self.patrol_points[self.current_patrol_index + 1]
         IN  IF Dist2(defense_pos, target) < waypoint_radius * waypoint_radius
             THEN LET index  == (self.current_patrol_index + 1) % Len(self.patrol_points)
                      target2 == self.patrol_points[index + 1]
                  IN  [self |-> [self EXCEPT !.current_patrol_index = index,
                                             !.last_target_pos = target2],
                       target |-> target2]
             ELSE [self |-> self, target |-> target]

\* FSM.handle_patrol; index + 1 is the list index counted from 1
handle_patrol(self, defense_pos, ticks) ==
    IF self.patrol_points = <<>>
    THEN [self |-> change_state(self, "IDLE", ticks), target |-> defense_pos]
    ELSE LET target == self.patrol_points[self.current_patrol_index + 1]
         IN  IF Dist2(defense_pos, target) < waypoint_radius * waypoint_radius
             THEN LET index  == (self.current_patrol_index + 1) % Len(self.patrol_points)
                      target2 == self.patrol_points[index + 1]
                  IN  [self |-> [self EXCEPT !.current_patrol_index = index,
                                             !.last_target_pos = target2],
                       target |-> target2]
             ELSE [self |-> self, target |-> target]

\* SAFE_DISTANCE * 1.1
evade_distance == (SAFE_DISTANCE * 11) \div 10

\* max(margin, min(v, size - margin))
clamp(v, margin, size) == Max(margin, Min(v, size - margin))

\* variant for sensitivity: the target is not clamped
evade_target_unclamped(defense_pos, player_pos) ==
    LET n == normalize_vector(defense_pos[1] - player_pos[1],
                              defense_pos[2] - player_pos[2])
    IN  <<defense_pos[1] + (n.nx * evade_distance) \div n.mag,
          defense_pos[2] + (n.ny * evade_distance) \div n.mag>>

\* the target of FSM.handle_evade: straight away from the player, clamped to
\* the screen less the car's width
evade_target(defense_pos, player_pos) ==
    LET n == normalize_vector(defense_pos[1] - player_pos[1],
                              defense_pos[2] - player_pos[2])
        target_x == defense_pos[1] + (n.nx * evade_distance) \div n.mag
        target_y == defense_pos[2] + (n.ny * evade_distance) \div n.mag
        margin == CAR_WIDTH
    IN  <<clamp(target_x, margin, SCREEN_WIDTH), clamp(target_y, margin, SCREEN_HEIGHT)>>

\* the divisions of evade_target are exact
EvadeExact(defense_pos, player_pos) ==
    LET n == normalize_vector(defense_pos[1] - player_pos[1],
                              defense_pos[2] - player_pos[2])
    IN  /\ ExactLen(defense_pos, player_pos)
        /\ (n.nx * evade_distance) % n.mag = 0
        /\ (n.ny * evade_distance) % n.mag = 0

\* variant for sensitivity: the defender stays where it is
handle_evade_stay(self, defense_pos, player_pos) ==
    [self |-> self, target |-> defense_pos]

\* variant for sensitivity: the evade goal is cached as the hide target
handle_evade_cached(self, defense_pos, player_pos) ==
    [self |-> [self EXCEPT !.current_hide_target =
                               evade_target(defense_pos, player_pos)],
     target |-> evade_target(defense_pos, player_pos)]

\* FSM.handle_evade
handle_evade(self, defense_pos, player_pos) ==
    [self |-> self, target |-> evade_target(defense_pos, player_pos)]

\* variant for sensitivity: the defender never counts as having reached
\* the cached hide target
near_hide_target_never(self, defense_pos) == FALSE

\* self.current_hide_target and distance(defense_pos, current_hide_target) < 20
near_hide_target(self, defense_pos) ==
    /\ self.current_hide_target # None
    /\ Dist2(defense_pos, self.current_hide_target) < 20 * 20

\* FSM.handle_hide; ranked is the sorted candidate list of this call's
\* find_best_hiding_spot
RECURSIVE handle_hide(_, _, _, _, _)
handle_hide(self, defense_pos, player_pos, obsts, ranked) ==
    LET at_target == near_hide_target(self, defense_pos)
    IN  IF at_target /\ _is_safe(defense_pos, player_pos, obsts)
        THEN \* close to the target and safe: stay put
             [self |-> self, target |-> defense_pos]
        ELSE LET self1 == IF at_target
                          THEN [self EXCEPT !.current_hide_target = None]
                          ELSE self
             IN  IF self1.current_hide_target = None
                 THEN LET go(best_spot) ==
                              IF best_spot # None
                              THEN [self |-> [self1 EXCEPT
                                                 !.current_hide_target = best_spot],
                                    target |-> best_spot]
                              ELSE [self |-> self1,
                                    target |-> handle_evade(self1, defense_pos,
                                                            player_pos).target]
                      IN  go(find_best_hiding_spot(defense_pos, player_pos,
                                                   obsts, ranked))
                 ELSE IF _is_safe(self1.current_hide_target, player_pos, obsts)
                      THEN [self |-> self1, target |-> self1.current_hide_target]
                      ELSE handle_hide([self1 EXCEPT !.current_hide_target = None],
                                       defense_pos, player_pos, obsts, ranked)

\* the target of FSM.handle_return_to_safe_area: the screen centre
safe_area_center == <<SCREEN_WIDTH \div 2, SCREEN_HEIGHT \div 2>>

\* variant for sensitivity: the centre never counts as reached
near_safe_area_center_never(defense_pos) == FALSE

\* distance(defense_pos, (target_x, target_y)) < 50
near_safe_area_center(defense_pos) ==
    Dist2(defense_pos, safe_area_center) < 50 * 50

\* FSM.handle_return_to_safe_area
handle_return_to_safe_area(self, defense_pos, ticks) ==
    [self |-> IF near_safe_area_center(defense_pos)
              THEN change_state(self, patrol_or_idle(self), ticks)
              ELSE self,
     target |-> safe_area_center]

\* self.state_handlers.get(self.current_state, self.handle_idle)
state_handlers(state) ==
    CASE state = "IDLE"   -> "handle_idle"
      [] state = "EVADE"  -> "handle_evade"
      [] state = "PATROL" -> "handle_patrol"
      [] state = "HIDE"   -> "handle_hide"
      [] state = "RETURN_TO_SAFE_AREA" -> "handle_return_to_safe_area"
      [] OTHER -> "handle_idle"

\* handler(defense_car, player_car, obstacles)
run_handler(handler, self, defense_pos, player_pos, obsts, ticks, ranked) ==
    CASE handler = "handle_idle"   -> handle_idle(self, defense_pos)
      [] handler = "handle_evade"  -> handle_evade(self, defense_pos, player_pos)
      [] handler = "handle_patrol" -> handle_patrol(self, defense_pos, ticks)
      [] handler = "handle_hide"   ->
            handle_hide(self, defense_pos, player_pos, obsts, ranked)
      [] handler = "handle_return_to_safe_area" ->
            handle_return_to_safe_area(self, defense_pos, ticks)

\* a float that is not a number, as a value no coordinate takes
NaN == -1000000

\* math.isnan
isnan(v) == v = NaN

\* variant for sensitivity: the handler's target is taken as it comes
validate_target_unchecked(self, target_position, defense_pos) ==
    [self |-> [self EXCEPT !.last_target_pos = target_position],
     target |-> target_position]

\* target validation and fallback of FSM.update, for the handler's
\* target_position: the fields it leaves and the target it settles on
validate_target(self, target_position, defense_pos) ==
    IF /\ target_position # None
       /\ ~(isnan(target_position[1]) \/ isnan(target_position[2]))
    THEN [self |-> [self EXCEPT !.last_target_pos = target_position],
          target |-> target_position]
    ELSE [self |-> self,
          target |-> IF self.last_target_pos # None THEN self.last_target_pos
                                                   ELSE defense_pos]

\* variant for sensitivity: every target in Hide counts as newly calculated
newly_calculated_always(target_position, self) == TRUE

\* target_position != self.last_target_pos, "a newly calculated spot"
newly_calculated(target_position, self) ==
    target_position # self.last_target_pos

\* FSM.update.  The result: self after the call (self), the returned target,
\* and what the call computed on the way: the squared distance, the safety
\* flag, allow_transition, and the fields right after the transition step
\* (mid), before the handler runs.
update(self, defense_pos, player_pos, obsts, ticks, ranked) ==
    LET dist2 == Dist2(player_pos, defense_pos)
        time_in_state == ticks - self.state_entry_time
        allow == allow_transition(time_in_state)
        \* the end of the call, for the validated result v of the handler
        finish(is_currently_safe, mid, handler, v) ==
            LET self2  == v.self
                target_position == v.target
                \* the hide target is stored again when the target differs
                \* from last_target_pos
                store(potential_hide_spot) ==
                    IF potential_hide_spot # None
                    THEN [self2 EXCEPT !.current_hide_target = potential_hide_spot]
                    ELSE self2
                self3 ==
                    IF /\ self2.current_state = "HIDE" /\ handler = "handle_hide"
                       /\ newly_calculated(target_position, self2)
                    THEN store(find_best_hiding_spot(defense_pos, player_pos,
                                                     obsts, ranked))
                    ELSE self2
            IN  [self |-> self3, target |-> target_position, dist2 |-> dist2,
                 safe |-> is_currently_safe, allow |-> allow, mid |-> mid]
        \* the handler call, for the fields mid the transition step leaves
        dispatch(is_currently_safe, mid) ==
            LET handler == state_handlers(mid.current_state)
                \* target validation and fallback, for the handler's result h
                validate(h) == validate_target(h.self, h.target, defense_pos)
            IN  finish(is_currently_safe, mid, handler,
                       validate(run_handler(handler, mid, defense_pos, player_pos,
                                            obsts, ticks, ranked)))
        \* the transition step, for the safety flag
        transition(is_currently_safe) ==
            LET next == next_state(self, dist2, is_currently_safe, allow)
            IN  dispatch(is_currently_safe,
                         IF next # self.current_state
                         THEN change_state(self, next, ticks) ELSE self)
    IN  transition(_is_safe(defense_pos, player_pos, obsts))

-----------------------------------------------------------------------------
(* Values the variables of the other components hold while one component   *)
(* is checked.                                                             *)
IdleFn   == call = NoCall /\ ret = Pending
IdleGrid ==
    /\ grid = {}
    /\ grid_width = SCREEN_WIDTH \div GRID_SIZE
    /\ grid_height = SCREEN_HEIGHT \div GRID_SIZE
IdleAtt  ==
    /\ target_car = None
    /\ path = <<>>
    /\ current_waypoint = None
    /\ path_update_counter = 0
    /\ attacker_pos = <<0, 0>>
IdleGame ==
    /\ defender = None
    /\ pc = "idle"
    /\ los_start_time = None
    /\ winner = None
IdleFSM  ==
    /\ current_state = "IDLE"
    /\ patrol_points = <<>>
    /\ current_patrol_index = 0
    /\ last_target_pos = None
    /\ current_hide_target = None
    /\ state_entry_time = 0
    /\ now = 0
    /\ obstacles = <<>>
    /\ obs = [op |-> "init"]
    /\ last_change = -1

-----------------------------------------------------------------------------
(* Line of sight as a function of its arguments *)
LosPoints ==
    {Pt(x, 300) : x \in {100, 103, 110, 112, 140, 200}}
        \cup {Pt(100, 304), Pt(130, 340), Pt(160, 380), Pt(220, 300),
              Pt(102, 352), Pt(150, 372)}

LosObstacleLists ==
    {<<>>, <<Obstacle(108, 280)>>, <<Obstacle(120, 280)>>,
     <<Obstacle(120, 320), Obstacle(160, 280)>>}

InitLOS ==
    /\ \E a \in LosPoints, b \in LosPoints, os \in LosObstacleLists :
          /\ call = [fn |-> "check_line_of_sight", a |-> a, b |-> b, obsts |-> os]
    /\ ret = Pending
    /\ IdleGrid /\ IdleFSM /\ IdleAtt /\ IdleGame

CallLOS ==
    /\ call.fn = "check_line_of_sight" /\ ~ret.done
    /\ ret' = [done |-> TRUE,
               fwd |-> check_line_of_sight(call.a, call.b, call.obsts),
               bwd |-> check_line_of_sight(call.b, call.a, call.obsts)]
    /\ UNCHANGED call /\ UNCHANGED gridVars /\ UNCHANGED fsmVars /\ UNCHANGED attVars /\ UNCHANGED gameVars

NextLOS == CallLOS
SpecLOS == InitLOS /\ [][NextLOS]_vars

\* C7: visibility symmetry: check_line_of_sight(a, b, obstacles) equals
\* check_line_of_sight(b, a, obstacles) for all points and obstacle lists.
C7_VisibilitySymmetry ==
    (call.fn = "check_line_of_sight" /\ ret.done) => ret.fwd = ret.bwd


\* the point lies inside an obstacle's rect
InsideSome(p, obsts) ==
    \E i \in 1..Len(obsts) :
        /\ rect_left(obsts[i]) <= p[1] /\ p[1] < rect_right(obsts[i])
        /\ rect_top(obsts[i]) <= p[2] /\ p[2] < rect_bottom(obsts[i])

\* C33: check_line_of_sight answers "not blocked" for every segment no
\* longer than the step of 5 units, the degenerate segment (shorter than 1
\* unit) included, in both directions and whatever obstacles contain the
\* end points: the first sample lies 5 units from the start and the loop
\* stops before the end.
C33_ShortSegmentUnblocked ==
    (/\ call.fn = "check_line_of_sight" /\ ret.done
     /\ Dist2(call.a, call.b) <= step_size * step_size)
        => ~ret.fwd /\ ~ret.bwd

\* a segment of positive length with both ends inside an obstacle
C33_Witness ==
    /\ call.fn = "check_line_of_sight" /\ ret.done
    /\ Dist2(call.a, call.b) > 0
    /\ Dist2(call.a, call.b) <= step_size * step_size
    /\ InsideSome(call.a, call.obsts) /\ InsideSome(call.b, call.obsts)
    /\ ~ret.fwd

\* a segment of exactly 5 units, and a point inside an obstacle seen from itself
C33_WitnessLimits ==
    /\ call.fn = "check_line_of_sight" /\ ret.done
    /\ \/ Dist2(call.a, call.b) = step_size * step_size
       \/ call.a = call.b /\ InsideSome(call.a, call.obsts)
    /\ ~ret.fwd

-----------------------------------------------------------------------------
(* The occupancy grid, rebuilt from obstacle lists (the real 50 x 40 grid) *)
GridObstacles ==
    {Obstacle(x, y) : x \in {0, 40, 45, 960}, y \in {0, 100, 760}}

GridObstacleLists ==
    {<<>>} \cup {<<o>> : o \in GridObstacles}
           \cup {<<o1, o2>> : o1 \in GridObstacles, o2 \in GridObstacles}

InitGrid ==
    /\ IdleFn /\ IdleGrid /\ IdleFSM /\ IdleAtt /\ IdleGame

CallUpdateObstacles ==
    \E obsts \in GridObstacleLists :
        /\ grid' = update_obstacles(obsts, grid_width, grid_height)
        \* with what became of the cells blocked before the call
        /\ call' = [fn |-> "update_obstacles", obsts |-> obsts,
                    freed |-> grid \ grid' # {}, kept |-> grid \cap grid' # {}]
        /\ ret' = [done |-> TRUE]
        /\ UNCHANGED <<grid_width, grid_height>> /\ UNCHANGED fsmVars /\ UNCHANGED attVars /\ UNCHANGED gameVars

NextGrid == CallUpdateObstacles
SpecGrid == InitGrid /\ [][NextGrid]_vars

\* the world-space square of a cell, and an obstacle's box grown by the
\* padding (in cells) on every side, overlap
CellMeetsPaddedBox(c, o) ==
    LET pad == obstacle_padding * GRID_SIZE
    IN  /\ c[1] * GRID_SIZE < rect_right(o) + pad
        /\ rect_left(o) - pad < (c[1] + 1) * GRID_SIZE
        /\ c[2] * GRID_SIZE < rect_bottom(o) + pad
        /\ rect_top(o) - pad < (c[2] + 1) * GRID_SIZE

AllCells(W, H) == (0..(W - 1)) \X (0..(H - 1))

\* C8: after update_obstacles(obstacles) a cell is blocked iff it intersects
\* the bounding box of some obstacle expanded by the padding (1 cell) on
\* every side.
C8_BlockedIffPadded ==
    (call.fn = "update_obstacles" /\ ret.done) =>
        \A c \in AllCells(grid_width, grid_height) :
            (c \in grid) <=>
                \E i \in 1..Len(call.obsts) : CellMeetsPaddedBox(c, call.obsts[i])

\* the padded cell range of an obstacle, whether inside the grid or not
PaddedRange(o) ==
    ((world_to_grid_tenths(10 * rect_left(o) - 1) - obstacle_padding)
        ..(world_to_grid_tenths(10 * rect_right(o) + 1) + obstacle_padding))
    \X ((world_to_grid_tenths(10 * rect_top(o) - 1) - obstacle_padding)
        ..(world_to_grid_tenths(10 * rect_bottom(o) + 1) + obstacle_padding))

\* C32: the grid after update_obstacles(obstacles) depends on the list
\* passed only: it is the set of the in-grid cells of the padded ranges of
\* the obstacles of that list, whatever was blocked before (so a second
\* call with the same list changes nothing); the cells of a padded range
\* that lie outside the grid are skipped, and no cell outside is written.
C32_RebuildHistoryIndependent ==
    (call.fn = "update_obstacles" /\ ret.done) =>
        /\ grid \subseteq AllCells(grid_width, grid_height)
        /\ \A c \in AllCells(grid_width, grid_height) :
               (c \in grid) <=> \E i \in 1..Len(call.obsts) : c \in PaddedRange(call.obsts[i])

\* a rebuild that frees cells blocked before, keeps others, and skips the
\* part of a padded range beyond the corner of the grid
C32_Witness ==
    /\ call.fn = "update_obstacles" /\ ret.done
    /\ call.freed /\ call.kept
    /\ \E i \in 1..Len(call.obsts) :
           PaddedRange(call.obsts[i]) \ AllCells(grid_width, grid_height) # {}

-----------------------------------------------------------------------------
(* find_path as a function of the grid and the two world positions, on a   *)
(* small grid                                                              *)
AGridW == 5
AGridH == 4

WallPieces ==
    { {<<3, 0>>, <<3, 1>>, <<4, 1>>},
      {<<2, 0>>, <<2, 1>>, <<2, 2>>},
      {<<2, 3>>},
      (0..2) \X (0..2),
      {<<0, 1>>, <<1, 1>>},
      {<<4, 0>>},
      {<<1, 2>>, <<3, 2>>} }

AStarGrids == {UNION ps : ps \in SUBSET WallPieces}

PathEndpoints ==
    {grid_to_world(0, 0), grid_to_world(4, 0), grid_to_world(0, 3),
     grid_to_world(4, 3), grid_to_world(1, 1), grid_to_world(3, 2),
     <<-15, -15>>, <<250, 30>>}

InitAStar ==
    /\ IdleFn /\ IdleFSM /\ IdleAtt /\ IdleGame
    /\ grid \in AStarGrids
    /\ grid_width = AGridW
    /\ grid_height = AGridH

CallFindPath ==
    \E start_pos \in PathEndpoints, end_pos \in PathEndpoints :
        /\ ~ret.done
        /\ call' = [fn |-> "find_path", start_pos |-> start_pos, end_pos |-> end_pos]
        /\ ret' = [done |-> TRUE,
                   path |-> find_path(start_pos, end_pos, grid, grid_width, grid_height)]
        /\ UNCHANGED gridVars /\ UNCHANGED fsmVars /\ UNCHANGED attVars /\ UNCHANGED gameVars

NextAStar == CallFindPath
SpecAStar == InitAStar /\ [][NextAStar]_vars

(* Reference notions for the claims about find_path *)
Infinity == 1000 * 1000

FreeCells == AllCells(grid_width, grid_height) \ grid

Adjacent(a, b) ==
    a # b /\ Abs(a[1] - b[1]) <= 1 /\ Abs(a[2] - b[2]) <= 1

StepCost(a, b) ==
    IF a[1] = b[1] \/ a[2] = b[2] THEN straight_cost ELSE diagonal_cost

\* least cost of a free 8-connected route from s to every free cell
\* (Bellman-Ford rounds until nothing changes)
RECURSIVE Relax(_)
Relax(d) ==
    LET nd == [c \in DOMAIN d |->
                 LET via == {d[b] + StepCost(b, c) :
                               b \in {b \in DOMAIN d : Adjacent(b, c) /\ d[b] < Infinity}}
                 IN  IF via = {} THEN d[c]
                     ELSE Min(d[c], CHOOSE m \in via : \A v \in via : m <= v)]
    IN  IF nd = d THEN d ELSE Relax(nd)

LeastCost(s, e) ==
    Relax([c \in FreeCells |-> IF c = s THEN 0 ELSE Infinity])[e]

CellOf(p) == world_to_grid(p[1], p[2])

IsCellCentre(p) == grid_to_world(CellOf(p)[1], CellOf(p)[2]) = p

RECURSIVE PathCost(_)
PathCost(waypoints) ==
    IF Len(waypoints) <= 1 THEN 0
    ELSE StepCost(CellOf(waypoints[1]), CellOf(waypoints[2]))
             + PathCost(Tail(waypoints))

StartCell == clamp_node(CellOf(call.start_pos), grid_width, grid_height)
EndCell   == clamp_node(CellOf(call.end_pos), grid_width, grid_height)

FindPathDone == call.fn = "find_path" /\ ret.done

C4_PathInFreeCells ==
    FindPathDone =>
        \A i \in 1..Len(ret.path) :
            /\ IsCellCentre(ret.path[i])
            /\ CellOf(ret.path[i]) \in FreeCells

\* the start position lies in a blocked cell and a path of several
\* waypoints is returned
C4_Witness ==
    /\ FindPathDone
    /\ StartCell \in grid
    /\ Len(ret.path) >= 3

\* C5: a free end cell that no free 8-connected route joins to the free
\* start cell yields the empty path.
C5_NoPathEmpty ==
    (/\ FindPathDone
     /\ StartCell \notin grid /\ EndCell \notin grid
     /\ LeastCost(StartCell, EndCell) = Infinity)
    => ret.path = <<>>

\* the end cell is the free corner (4, 0) walled in by three blocked cells
C5_Witness ==
    /\ FindPathDone
    /\ StartCell \notin grid /\ EndCell \notin grid
    /\ EndCell = <<4, 0>>
    /\ {<<3, 0>>, <<3, 1>>, <<4, 1>>} \subseteq grid
    /\ ret.path = <<>>

\* the start and end nodes find_path settles on: the clamped cells, a
\* blocked one replaced by _find_nearest_free_cell's answer (None when it
\* has none)
SettledStart ==
    IF StartCell \in grid
    THEN _find_nearest_free_cell(StartCell, EndCell, grid, grid_width, grid_height)
    ELSE StartCell

SettledEnd ==
    IF EndCell \in grid
    THEN _find_nearest_free_cell(EndCell, SettledStart, grid, grid_width, grid_height)
    ELSE EndCell

-----------------------------------------------------------------------------
(* The cover-point search as a function of its arguments *)
HideObstacles ==
    {Obstacle(280, 280), Obstacle(580, 280), Obstacle(920, 280),
     Obstacle(280, 20)}

HideObstacleLists ==
    {<<>>} \cup {<<o>> : o \in HideObstacles}
           \cup {<<Obstacle(280, 280), o>> : o \in HideObstacles \ {Obstacle(280, 280)}}
           \cup {<<Obstacle(580, 280), Obstacle(280, 280), Obstacle(920, 280)>>}

HidePlayers ==
    {Pt(100, 300), Pt(450, 300), Pt(900, 300), Pt(450, 100), Pt(450, 500),
     Pt(300, 700), Pt(600, 700), Pt(300, 300), Pt(240, 220), Pt(300, 500),
     Pt(300, 100)}

HideDefenders ==
    {Pt(380, 300), Pt(220, 300), Pt(500, 300), Pt(450, 420), Pt(700, 400),
     Pt(950, 700), Pt(300, 500)}

InitHide ==
    /\ \E d \in HideDefenders, p \in HidePlayers, os \in HideObstacleLists :
          /\ \A i \in 1..Len(os) : SpotExact(os[i], p)
          /\ \E ranked \in Rankings(candidate_obstacles(d, p, os)) :
                call = [fn |-> "find_best_hiding_spot", defense_pos |-> d,
                        player_pos |-> p, obsts |-> os, ranked |-> ranked]
    /\ ret = Pending
    /\ IdleGrid /\ IdleFSM /\ IdleAtt /\ IdleGame

CallHide ==
    /\ call.fn = "find_best_hiding_spot" /\ ~ret.done
    /\ ret' = [done |-> TRUE,
               spot |-> find_best_hiding_spot(call.defense_pos, call.player_pos,
                                              call.obsts, call.ranked)]
    /\ UNCHANGED call /\ UNCHANGED gridVars /\ UNCHANGED fsmVars /\ UNCHANGED attVars /\ UNCHANGED gameVars

NextHide == CallHide
SpecHide == InitHide /\ [][NextHide]_vars

HideDone == call.fn = "find_best_hiding_spot" /\ ret.done

\* C6: every position find_best_hiding_spot returns is reported blocked by
\* check_line_of_sight from the player's position against the same
\* obstacles, and lies strictly inside the screen shrunk by the margin 10.
C6_CoverPointValid ==
    (HideDone /\ ret.spot # None) =>
        /\ check_line_of_sight(call.player_pos, ret.spot, call.obsts)
        /\ 10 < ret.spot[1] /\ ret.spot[1] < SCREEN_WIDTH - 10
        /\ 10 < ret.spot[2] /\ ret.spot[2] < SCREEN_HEIGHT - 10

\* a spot is returned although another candidate's spot fell outside the
\* margin
C6_Witness ==
    /\ HideDone /\ ret.spot # None
    /\ \E i \in candidate_obstacles(call.defense_pos, call.player_pos, call.obsts) :
           ~in_margin(potential_spot(call.obsts[i], call.player_pos))

(* The search on a field with six obstacles in a row, one more than the   *)
(* search looks at, the cars on the row's line.                            *)
RowObstacles ==
    <<Obstacle(180, 280), Obstacle(300, 280), Obstacle(420, 280),
      Obstacle(540, 280), Obstacle(660, 280), Obstacle(780, 280)>>

RowDefenders == {Pt(500, 300), Pt(620, 300)}

RowPlayers == {Pt(100, 300), Pt(960, 300)}

InitHideRow ==
    /\ \E d \in RowDefenders, p \in RowPlayers :
          /\ \A i \in 1..Len(RowObstacles) : SpotExact(RowObstacles[i], p)
          /\ \E ranked \in Rankings(candidate_obstacles(d, p, RowObstacles)) :
                call = [fn |-> "find_best_hiding_spot", defense_pos |-> d,
                        player_pos |-> p, obsts |-> RowObstacles,
                        ranked |-> ranked]
    /\ ret = Pending
    /\ IdleGrid /\ IdleFSM /\ IdleAtt /\ IdleGame

SpecHideRow == InitHideRow /\ [][NextHide]_vars

\* the spots of the obstacles the call looks at (the first
\* MAX_HIDE_SEARCH_OBSTACLES of the ranking) that lie inside the margin and
\* are hidden from the player
ValidSpots(n) ==
    {potential_spot(call.obsts[call.ranked[k]], call.player_pos) :
        k \in {j \in 1..Min(Len(call.ranked), n) :
                 LET sp == potential_spot(call.obsts[call.ranked[j]],
                                          call.player_pos)
                 IN  in_margin(sp) /\ _is_safe(sp, call.player_pos, call.obsts)}}

\* C24: find_best_hiding_spot returns, of the valid spots behind the (at
\* most five) top-ranked obstacles, one nearest to the defender, whatever
\* the rank of its obstacle; it returns none exactly when there is no
\* valid spot among them.
C24_NearestValidSpot ==
    HideDone =>
        /\ (ret.spot = None) <=> (ValidSpots(MAX_HIDE_SEARCH_OBSTACLES) = {})
        /\ ret.spot # None =>
               /\ ret.spot \in ValidSpots(MAX_HIDE_SEARCH_OBSTACLES)
               /\ \A v \in ValidSpots(MAX_HIDE_SEARCH_OBSTACLES) :
                      Dist2(call.defense_pos, ret.spot) <= Dist2(call.defense_pos, v)

\* the returned spot lies behind the obstacle ranked last of the five, and
\* the spot of the first-ranked obstacle is valid but further away
C24_Witness ==
    /\ HideDone /\ Len(call.ranked) > MAX_HIDE_SEARCH_OBSTACLES
    /\ ret.spot = potential_spot(call.obsts[call.ranked[5]], call.player_pos)
    /\ potential_spot(call.obsts[call.ranked[1]], call.player_pos)
           \in ValidSpots(1)
    /\ Dist2(call.defense_pos, ret.spot)
           < Dist2(call.defense_pos,
                   potential_spot(call.obsts[call.ranked[1]], call.player_pos))

\* a valid spot nearer than the returned one lies behind the obstacle
\* ranked sixth, which the search does not look at
C24_WitnessSixth ==
    /\ HideDone /\ Len(call.ranked) = 6 /\ ret.spot # None
    /\ \E v \in ValidSpots(6) :
           Dist2(call.defense_pos, v) < Dist2(call.defense_pos, ret.spot)

\* the call of the successful-hide scenario: one obstacle of size 40 with
\* its centre at (300, 300), the threat at (300, 100), the defender at
\* (300, 500)
HideScenario ==
    /\ HideDone
    /\ call.obsts = <<Obstacle(280, 280)>>
    /\ rect_center(call.obsts[1]) = Pt(300, 300) /\ call.obsts[1].size = 40
    /\ call.player_pos = Pt(300, 100)
    /\ call.defense_pos = Pt(300, 500)

\* C19: in the successful-hide scenario find_best_hiding_spot returns
\* (300, 300 + 20 + BUFFER_BEHIND_OBSTACLE) = (300, 380), on the far side
\* of the obstacle from the threat, and check_line_of_sight reports the
\* line from the threat to that point blocked.
C19_SuccessfulHide ==
    HideScenario =>
        /\ ret.spot = Pt(300, 300 + 20 + BUFFER_BEHIND_OBSTACLE)
        /\ ret.spot = Pt(300, 380)
        /\ ret.spot[2] > rect_bottom(call.obsts[1])
        /\ check_line_of_sight(call.player_pos, ret.spot, call.obsts)

C19_Witness ==
    /\ HideScenario
    /\ ret.spot = Pt(300, 380)
    /\ check_line_of_sight(Pt(300, 100), Pt(300, 380), <<Obstacle(280, 280)>>)

-----------------------------------------------------------------------------
(* The defence FSM driven by its host: the clock advances, the defender    *)
(* is updated with the two cars at positions drawn from small sets.        *)
MaxTime == 1000

TickSteps == {250, 500}

FsmObstacleLists == {<<>>, <<Obstacle(280, 280)>>}

FsmDefenders == {Pt(380, 300), Pt(800, 300), Pt(500, 400)}

FsmPlayers == {Pt(100, 300), Pt(350, 300), Pt(400, 300), Pt(500, 300)}

Routes == {<<Pt(800, 300), Pt(380, 300)>>}

\* the FSM instance as a record
Self ==
    [current_state |-> current_state, patrol_points |-> patrol_points,
     current_patrol_index |-> current_patrol_index,
     last_target_pos |-> last_target_pos,
     current_hide_target |-> current_hide_target,
     state_entry_time |-> state_entry_time]

SetSelf(self) ==
    /\ current_state' = self.current_state
    /\ patrol_points' = self.patrol_points
    /\ current_patrol_index' = self.current_patrol_index
    /\ last_target_pos' = self.last_target_pos
    /\ current_hide_target' = self.current_hide_target
    /\ state_entry_time' = self.state_entry_time

\* what an observation keeps of the instance: the state, the dwell timer and
\* the cached hide target
Seen(self) ==
    [current_state |-> self.current_state,
     state_entry_time |-> self.state_entry_time,
     current_hide_target |-> self.current_hide_target]

\* the history of state changes
NoteChange(self) ==
    last_change' = IF self.current_state # current_state THEN now ELSE last_change

\* FSM.__init__, in a session with some obstacle list
InitFSM ==
    /\ IdleFn /\ IdleGrid /\ IdleAtt /\ IdleGame
    /\ current_state = "IDLE"
    /\ patrol_points = <<>>
    /\ current_patrol_index = 0
    /\ last_target_pos = None
    /\ current_hide_target = None
    /\ state_entry_time = 0
    /\ now = 0
    /\ obstacles \in FsmObstacleLists
    /\ obs = [op |-> "init"]
    /\ last_change = -1

\* the clock advances
Tick ==
    \E d \in TickSteps :
        /\ now + d <= MaxTime
        /\ now' = now + d
        /\ UNCHANGED <<current_state, patrol_points, current_patrol_index,
                       last_target_pos, current_hide_target, state_entry_time,
                       obstacles, obs, last_change>>
        /\ UNCHANGED fnVars /\ UNCHANGED gridVars /\ UNCHANGED attVars /\ UNCHANGED gameVars

\* the positions of the two cars for which evade_target is exact
FsmPairs == {p \in FsmDefenders \X FsmPlayers : EvadeExact(p[1], p[2])}

\* the obstacles of the sessions and the positions of the player for which
\* the point behind the obstacle is exact
FsmSpots ==
    {q \in {Obstacle(280, 280), Obstacle(580, 280)} \X FsmPlayers :
        SpotExact(q[1], q[2])}

\* FSM.update(defense_car, player_car, obstacles)
Update ==
    \E defense_pos \in FsmDefenders, player_pos \in FsmPlayers :
        /\ <<defense_pos, player_pos>> \in FsmPairs
        /\ \A i \in 1..Len(obstacles) : <<obstacles[i], player_pos>> \in FsmSpots
        /\ \E ranked \in Rankings(candidate_obstacles(defense_pos, player_pos, obstacles)) :
              \E r \in {update(Self, defense_pos, player_pos, obstacles, now, ranked)} :
              \* the spot a search from these positions finds, looked for
              \* when the handler is handle_hide
              \E spot \in {IF r.mid.current_state = "HIDE"
                            THEN find_best_hiding_spot(defense_pos, player_pos,
                                                       obstacles, ranked)
                            ELSE None} :
                  /\ SetSelf(r.self)
                  /\ NoteChange(r.self)
                  /\ obs' = [op |-> "update", t |-> now,
                             dist2 |-> r.dist2, safe |-> r.safe, allow |-> r.allow,
                             prev |-> Seen(Self), mid |-> Seen(r.mid),
                             post |-> Seen(r.self), target |-> r.target,
                             prev_change |-> last_change,
                             prev_index |-> current_patrol_index,
                             at_waypoint |-> at_waypoint(Self, defense_pos),
                             near_target |-> near_hide_target(Self, defense_pos),
                             at_center |->
                                 Dist2(defense_pos, <<500, 400>>) < 50 * 50,
                             target_safe |->
                                 /\ current_hide_target # None
                                 /\ _is_safe(current_hide_target, player_pos,
                                             obstacles),
                             no_spot |-> spot = None,
                             fresh_spot |-> spot,
                             evade_goal |->
                                 r.target = evade_target(defense_pos, player_pos)]
        /\ UNCHANGED <<now, obstacles>>
        /\ UNCHANGED fnVars /\ UNCHANGED gridVars /\ UNCHANGED attVars /\ UNCHANGED gameVars

\* DefenderAI.set_patrol_points(points): the route is handed to the FSM,
\* which starts patrolling when it is idle
DefenderSetPatrolPoints ==
    \E points \in Routes :
        LET self1 == set_patrol_points(Self, points)
            self2 == IF self1.current_state = "IDLE"
                     THEN change_state(self1, "PATROL", now) ELSE self1
        IN  /\ SetSelf(self2)
            /\ NoteChange(self2)
            /\ obs' = [op |-> "defender_set_patrol_points", t |-> now,
                       prev |-> Seen(Self), post |-> Seen(self2)]
            /\ UNCHANGED <<now, obstacles>>
            /\ UNCHANGED fnVars /\ UNCHANGED gridVars /\ UNCHANGED attVars /\ UNCHANGED gameVars

NextFSM == Tick \/ Update \/ DefenderSetPatrolPoints
SpecFSM == InitFSM /\ [][NextFSM]_vars

(* The same session on a field with two obstacles in a row, so that a     *)
(* search from another place finds another spot while the old one holds.  *)
InitFSMCover ==
    /\ IdleFn /\ IdleGrid /\ IdleAtt /\ IdleGame
    /\ current_state = "IDLE"
    /\ patrol_points = <<>>
    /\ current_patrol_index = 0
    /\ last_target_pos = None
    /\ current_hide_target = None
    /\ state_entry_time = 0
    /\ now = 0
    /\ obstacles = <<Obstacle(280, 280), Obstacle(580, 280)>>
    /\ obs = [op |-> "init"]
    /\ last_change = -1

SpecFSMCover == InitFSMCover /\ [][NextFSM]_vars

(* The FSM with a host that also calls its public methods directly, one   *)
(* direct call at a time between two updates                               *)

\* FSM.set_patrol_points(points)
SetPatrolPoints ==
    \E points \in {<<>>} \cup Routes :
        LET self1 == set_patrol_points(Self, points)
        IN  /\ obs.op \in {"init", "update"}
            /\ SetSelf(self1)
            /\ NoteChange(self1)
            /\ obs' = [op |-> "set_patrol_points", t |-> now,
                       prev |-> Seen(Self), post |-> Seen(self1)]
            /\ UNCHANGED <<now, obstacles>>
            /\ UNCHANGED fnVars /\ UNCHANGED gridVars /\ UNCHANGED attVars /\ UNCHANGED gameVars

\* FSM.change_state(next_state)
ChangeState ==
    \E requested \in DefenseState :
        LET self1 == change_state(Self, requested, now)
        IN  /\ obs.op \in {"init", "update"}
            /\ SetSelf(self1)
            /\ NoteChange(self1)
            /\ obs' = [op |-> "change_state", t |-> now, requested |-> requested,
                       prev |-> Seen(Self), post |-> Seen(self1)]
            /\ UNCHANGED <<now, obstacles>>
            /\ UNCHANGED fnVars /\ UNCHANGED gridVars /\ UNCHANGED attVars /\ UNCHANGED gameVars

NextFSMHost == Tick \/ Update \/ SetPatrolPoints \/ ChangeState
SpecFSMHost == InitFSM /\ [][NextFSMHost]_vars

(* The FSM with a host that sets and clears the route at any time, on the *)
(* FSM itself or through the defender, and never calls change_state       *)

\* FSM.set_patrol_points(points), any number of times between two updates
SetAnyPatrolPoints ==
    \E points \in {<<>>} \cup Routes :
        LET self1 == set_patrol_points(Self, points)
        IN  /\ SetSelf(self1)
            /\ NoteChange(self1)
            /\ obs' = [op |-> "set_patrol_points", t |-> now,
                       prev |-> Seen(Self), post |-> Seen(self1)]
            /\ UNCHANGED <<now, obstacles>>
            /\ UNCHANGED fnVars /\ UNCHANGED gridVars /\ UNCHANGED attVars /\ UNCHANGED gameVars

\* DefenderAI.set_patrol_points(points), the empty list included: an idle
\* FSM is put into Patrol whatever the list holds
DefenderSetAnyPatrolPoints ==
    \E points \in {<<>>} \cup Routes :
        LET self1 == set_patrol_points(Self, points)
            self2 == IF self1.current_state = "IDLE"
                     THEN change_state(self1, "PATROL", now) ELSE self1
        IN  /\ SetSelf(self2)
            /\ NoteChange(self2)
            /\ obs' = [op |-> "defender_set_patrol_points", t |-> now,
                       prev |-> Seen(Self), post |-> Seen(self2)]
            /\ UNCHANGED <<now, obstacles>>
            /\ UNCHANGED fnVars /\ UNCHANGED gridVars /\ UNCHANGED attVars /\ UNCHANGED gameVars

NextFSMRoutes == Tick \/ Update \/ SetAnyPatrolPoints \/ DefenderSetAnyPatrolPoints
SpecFSMRoutes == InitFSM /\ [][NextFSMRoutes]_vars

-----------------------------------------------------------------------------
(* Claims about the FSM *)
UpdateDone == obs.op = "update"

\* the update changed the state by the very-close override
OverrideToEvade ==
    /\ obs.dist2 < VERY_CLOSE_DISTANCE * VERY_CLOSE_DISTANCE
    /\ obs.post.current_state = "EVADE"

\* C1: FSM hysteresis: whenever an update changes the state, other than to
\* Evade by the very-close override, at least the dwell time (500 ms) has
\* passed since the state last changed; so a threat that oscillates across
\* the hide-trigger distance faster than that changes the state at most
\* once per dwell-time window.
C1_Hysteresis ==
    (/\ UpdateDone
     /\ obs.post.current_state # obs.prev.current_state
     /\ ~OverrideToEvade
     /\ obs.prev_change >= 0)
    => obs.t - obs.prev_change >= 500

\* the FSM went into hiding less than the dwell time ago, the threat is
\* back beyond the release distance with the defender hidden, and the
\* update keeps the state
C1_Witness ==
    /\ UpdateDone
    /\ obs.prev.current_state = "HIDE"
    /\ obs.safe /\ obs.dist2 > 480 * 480
    /\ ~obs.allow
    /\ obs.prev_change >= 0 /\ obs.t - obs.prev_change < 500
    /\ obs.post.current_state = "HIDE"

\* C2: very-close override: after the transition step of every update in
\* which the threat is nearer than VERY_CLOSE_DISTANCE the state is Evade,
\* whatever the state before, the visibility and the time in the state.
C2_VeryCloseOverride ==
    (UpdateDone /\ obs.dist2 < 80 * 80) => obs.mid.current_state = "EVADE"

\* the override fires out of Hide before the dwell time has passed
C2_Witness ==
    /\ UpdateDone
    /\ obs.dist2 < 80 * 80
    /\ obs.prev.current_state = "HIDE"
    /\ ~obs.allow
    /\ obs.mid.current_state = "EVADE"

\* a call of change_state seen as the fields before (a) and after (b), at
\* clock reading t: an actual change resets the timer and the hide target
ChangeResets(a, b, t) ==
    a.current_state # b.current_state =>
        /\ b.state_entry_time = t
        /\ b.current_hide_target = None

\* C9: every actual state change (by update's transition step, by a state
\* handler, or by a direct call of change_state) sets the dwell timer to
\* the current time and the cached hide target to none; a request for the
\* state the FSM is already in leaves the timer and the hide target alone.
C9_ChangeResetsTimerAndTarget ==
    /\ UpdateDone =>
          /\ ChangeResets(obs.prev, obs.mid, obs.t)
          /\ ChangeResets(obs.mid, obs.post, obs.t)
          /\ obs.mid.current_state = obs.prev.current_state => obs.mid = obs.prev
    /\ obs.op = "change_state" =>
          /\ obs.post.current_state = obs.requested
          /\ ChangeResets(obs.prev, obs.post, obs.t)
          /\ obs.requested = obs.prev.current_state => obs.post = obs.prev
    /\ obs.op \in {"set_patrol_points", "defender_set_patrol_points"} =>
          ChangeResets(obs.prev, obs.post, obs.t)

\* an update leaves Hide while a hide target is cached and the timer holds
\* an earlier time
C9_Witness ==
    /\ UpdateDone
    /\ obs.prev.current_state = "HIDE"
    /\ obs.prev.current_hide_target # None
    /\ obs.prev.state_entry_time < obs.t
    /\ obs.mid.current_state # "HIDE"
    /\ obs.mid.state_entry_time = obs.t
    /\ obs.mid.current_hide_target = None

\* C10: in an update with the threat not very close, the dwell time
\* elapsed, the defender exposed and the threat nearer than
\* HIDE_TRIGGER_DISTANCE, the state after the transition step is Hide,
\* from every prior state.
C10_HideWhenExposed ==
    (/\ UpdateDone
     /\ ~(obs.dist2 < 80 * 80)
     /\ obs.t - obs.prev.state_entry_time >= 500
     /\ ~obs.safe
     /\ obs.dist2 < 400 * 400)
    => obs.mid.current_state = "HIDE"

\* the exposed defender goes from Evade into Hide
C10_Witness ==
    /\ UpdateDone
    /\ ~(obs.dist2 < 80 * 80)
    /\ obs.t - obs.prev.state_entry_time >= 500
    /\ ~obs.safe
    /\ obs.dist2 < 400 * 400
    /\ obs.prev.current_state = "EVADE"
    /\ obs.mid.current_state = "HIDE"

\* the state the FSM falls back to when the threat is gone: Patrol with a
\* route, Idle without (the route is not changed by an update)
RestState == IF patrol_points # <<>> THEN "PATROL" ELSE "IDLE"

\* the threat is further than 1.1 x HIDE_TRIGGER_DISTANCE
FarThreat == 100 * obs.dist2 > 121 * 400 * 400

\* C11: in an update with the dwell time elapsed and the threat further
\* than 1.1 x HIDE_TRIGGER_DISTANCE (so neither the very-close override nor
\* the exposed-and-near rule applies), a state other than Hide, Patrol and
\* Idle (the Hide rules come first) gives way to Patrol when a route is
\* configured and to Idle otherwise, and Patrol and Idle are kept.
C11_LeaveWhenThreatFar ==
    (UpdateDone /\ obs.allow /\ FarThreat) =>
        /\ obs.prev.current_state \in {"EVADE", "RETURN_TO_SAFE_AREA"} =>
               obs.mid.current_state = RestState
        /\ obs.prev.current_state \in {"PATROL", "IDLE"} =>
               obs.mid.current_state = obs.prev.current_state

\* Evade gives way to Patrol, the threat far and a route configured
C11_Witness ==
    /\ UpdateDone /\ obs.allow /\ FarThreat
    /\ obs.prev.current_state = "EVADE"
    /\ patrol_points # <<>>
    /\ obs.mid.current_state = "PATROL"

\* C12: in an update with the dwell time elapsed, the threat not very
\* close but nearer than HIDE_TRIGGER_DISTANCE and the state Patrol or Idle,
\* the state after the transition step is Hide, the defender hidden or not.
C12_PatrolIdleToHide ==
    (/\ UpdateDone /\ obs.allow
     /\ ~(obs.dist2 < 80 * 80) /\ obs.dist2 < 400 * 400
     /\ obs.prev.current_state \in {"PATROL", "IDLE"})
    => obs.mid.current_state = "HIDE"

\* a hidden defender goes from Patrol into Hide
C12_Witness ==
    /\ UpdateDone /\ obs.allow
    /\ ~(obs.dist2 < 80 * 80) /\ obs.dist2 < 400 * 400
    /\ obs.safe
    /\ obs.prev.current_state = "PATROL"
    /\ obs.mid.current_state = "HIDE"

\* C13: the patrol index moves only in an update whose handler is the
\* patrol handler and finds the defender less than waypoint_radius from the
\* current patrol point, and then to the next index modulo the number of
\* points (so from the last point back to 0); with a route of N > 0 points
\* the index is at least 0 and less than N in every state.
C13_PatrolCycling ==
    /\ patrol_points # <<>> =>
           0 <= current_patrol_index /\ current_patrol_index < Len(patrol_points)
    /\ UpdateDone =>
           current_patrol_index =
               IF obs.mid.current_state = "PATROL" /\ obs.at_waypoint
               THEN (obs.prev_index + 1) % Len(patrol_points)
               ELSE obs.prev_index

\* the defender reaches the last point of the route and the index is 0 again
C13_Witness ==
    /\ UpdateDone
    /\ obs.mid.current_state = "PATROL" /\ obs.at_waypoint
    /\ Len(patrol_points) > 1
    /\ obs.prev_index = Len(patrol_points) - 1
    /\ current_patrol_index = 0

\* C15: an update that leaves the FSM in Hide with no cover point (the
\* search finds none and none is cached; always so without obstacles)
\* returns the Evade handler's goal for the same positions, the state is
\* still Hide after the handler and the dwell timer is the one the
\* transition step left.
C15_HideFallsBackToEvade ==
    (/\ UpdateDone
     /\ obs.mid.current_state = "HIDE"
     /\ obs.no_spot
     /\ obs.post.current_hide_target = None)
    => /\ obs.evade_goal
       /\ obs.post.current_state = "HIDE"
       /\ obs.post.state_entry_time = obs.mid.state_entry_time

\* without obstacles every update in Hide takes the fallback
C15_NoObstaclesNoSpot ==
    (UpdateDone /\ obs.mid.current_state = "HIDE" /\ obstacles = <<>>) =>
        obs.no_spot /\ obs.post.current_hide_target = None

\* the fallback in an update that did not enter Hide itself: the timer
\* holds an earlier time and is kept
C15_Witness ==
    /\ UpdateDone
    /\ obs.prev.current_state = "HIDE" /\ obs.mid.current_state = "HIDE"
    /\ obs.no_spot /\ obs.post.current_hide_target = None
    /\ obs.evade_goal
    /\ obs.post.current_state = "HIDE"
    /\ obs.post.state_entry_time < obs.t

\* C20: an update that finds the FSM in Hide leaves it in Hide, or in
\* Evade with the threat very close, or in Patrol/Idle (by the route) with
\* the dwell time elapsed, the defender hidden and the threat further than
\* 1.2 x HIDE_TRIGGER_DISTANCE; an exposed defender in Hide stays in Hide at
\* every threat distance from VERY_CLOSE_DISTANCE up.
C20_LeavingHide ==
    (UpdateDone /\ obs.prev.current_state = "HIDE") =>
        /\ obs.post.current_state = obs.mid.current_state
        /\ obs.mid.current_state \in {"HIDE", "EVADE", RestState}
        /\ obs.mid.current_state = "EVADE" => obs.dist2 < 80 * 80
        /\ obs.mid.current_state \in {"PATROL", "IDLE"} =>
               /\ obs.allow /\ obs.safe
               /\ 25 * obs.dist2 > 36 * 400 * 400
        /\ (~obs.safe /\ ~(obs.dist2 < 80 * 80)) => obs.mid.current_state = "HIDE"

\* an exposed defender in Hide, the dwell time elapsed and the threat
\* beyond 1.2 x HIDE_TRIGGER_DISTANCE, stays in Hide
C20_Witness ==
    /\ UpdateDone /\ obs.prev.current_state = "HIDE"
    /\ obs.allow /\ ~obs.safe
    /\ 25 * obs.dist2 > 36 * 400 * 400
    /\ obs.mid.current_state = "HIDE"

\* C36: ReturnToSafeArea is unreachable through update: from the initial
\* state Idle, after any sequence of FSM.update, FSM.set_patrol_points and
\* DefenderAI.set_patrol_points calls the state is never ReturnToSafeArea,
\* neither after the transition step of an update nor after its handler.
C36_ReturnToSafeAreaUnreachable ==
    /\ current_state # "RETURN_TO_SAFE_AREA"
    /\ UpdateDone => obs.mid.current_state # "RETURN_TO_SAFE_AREA"

\* an update leaves Evade, the threat far away, for Patrol on a route the
\* host has set
C36_Witness ==
    /\ UpdateDone /\ obs.allow /\ 100 * obs.dist2 > 121 * 400 * 400
    /\ obs.prev.current_state = "EVADE"
    /\ patrol_points # <<>>
    /\ obs.mid.current_state = "PATROL"
    /\ current_state = "PATROL"

\* the same for Idle, no route set
C36_WitnessIdle ==
    /\ UpdateDone /\ obs.allow /\ 100 * obs.dist2 > 121 * 400 * 400
    /\ obs.prev.current_state = "EVADE"
    /\ patrol_points = <<>>
    /\ current_state = "IDLE"

\* C37: cached hide target implies Hide: in every state, and so after every
\* update, a cached hide target that is not none means the state is Hide;
\* after an update whose Hide handler found no cover point and returned the
\* Evade goal, the cached hide target is none, not that goal.
C37_HideTargetImpliesHide ==
    /\ current_hide_target # None => current_state = "HIDE"
    /\ (/\ UpdateDone
        /\ obs.mid.current_state = "HIDE"
        /\ obs.no_spot /\ obs.evade_goal)
       => /\ current_hide_target = None
          /\ current_hide_target # obs.target

\* the FSM is in Hide with a cached target and the update, the threat very
\* close, leaves Hide for Evade: the cache is emptied
C37_Witness ==
    /\ UpdateDone
    /\ obs.prev.current_state = "HIDE"
    /\ obs.prev.current_hide_target # None
    /\ current_state = "EVADE"
    /\ current_hide_target = None

\* the fallback: an update in Hide with obstacles on the field finds no cover
\* point and returns the Evade goal
C37_WitnessFallback ==
    /\ UpdateDone
    /\ obstacles # <<>>
    /\ obs.mid.current_state = "HIDE"
    /\ obs.no_spot /\ obs.evade_goal
    /\ current_state = "HIDE"
    /\ current_hide_target = None

\* C38: Patrol requires a route: after every update the state Patrol means
\* the list of patrol points is not empty; an update that finds or leaves
\* the FSM in Patrol with an empty list after its transition step ends in
\* Idle, the patrol handler having dropped the state in the same call.
C38_PatrolRequiresRoute ==
    UpdateDone =>
        /\ current_state = "PATROL" => patrol_points # <<>>
        /\ (obs.mid.current_state = "PATROL" /\ patrol_points = <<>>) =>
               current_state = "IDLE"

\* Patrol was entered with an empty list by DefenderAI.set_patrol_points
\* (the timer holds an earlier time), the transition step of the update
\* keeps Patrol and the handler drops to Idle
C38_Witness ==
    /\ UpdateDone
    /\ obs.prev.current_state = "PATROL"
    /\ obs.prev.state_entry_time < obs.t
    /\ patrol_points = <<>>
    /\ obs.mid.current_state = "PATROL"
    /\ current_state = "IDLE"
    /\ state_entry_time = obs.t

C39_BandStaysIdle ==
    \A d \in {401, 420, 440} : \A is_currently_safe, allow \in BOOLEAN :
        next_state([Self EXCEPT !.current_state = "IDLE"], d * d,
                   is_currently_safe, allow) = "IDLE"

-----------------------------------------------------------------------------
(* FSM.handle_evade as a function of the two positions.  The defender's    *)
(* centre is anywhere a car can be (from half a car from the screen edge), *)
(* the threat axis-aligned or on a 3-4-5 direction from it, or on it.      *)
EvadeDefenders ==
    {Pt(15, 20), Pt(20, 400), Pt(100, 100), Pt(500, 400), Pt(900, 400),
     Pt(960, 400), Pt(985, 780), Pt(500, 700), Pt(500, 770), Pt(940, 720)}

ThreatOffsets ==
    {<<0, 0>>, <<100, 0>>, <<-100, 0>>, <<0, 100>>, <<0, -100>>, <<-10, 0>>,
     <<30, 40>>, <<-30, 40>>, <<30, -40>>, <<-30, -40>>, <<-80, -60>>}

InitEvade ==
    /\ \E d \in EvadeDefenders, o \in ThreatOffsets :
          /\ 0 <= d[1] + o[1] /\ d[1] + o[1] <= SCREEN_WIDTH
          /\ 0 <= d[2] + o[2] /\ d[2] + o[2] <= SCREEN_HEIGHT
          /\ EvadeExact(d, <<d[1] + o[1], d[2] + o[2]>>)
          /\ call = [fn |-> "handle_evade", defense_pos |-> d,
                     player_pos |-> <<d[1] + o[1], d[2] + o[2]>>]
    /\ ret = Pending
    /\ IdleGrid /\ IdleFSM /\ IdleAtt /\ IdleGame

CallEvade ==
    /\ call.fn = "handle_evade" /\ ~ret.done
    /\ ret' = [done |-> TRUE,
               target |-> handle_evade(Self, call.defense_pos, call.player_pos).target]
    /\ UNCHANGED call /\ UNCHANGED gridVars /\ UNCHANGED fsmVars /\ UNCHANGED attVars /\ UNCHANGED gameVars

NextEvade == CallEvade
SpecEvade == InitEvade /\ [][NextEvade]_vars

EvadeDone == call.fn = "handle_evade" /\ ret.done

\* the defender's position moved 1.1 x SAFE_DISTANCE straight away from
\* the threat (not at all when the two coincide)
Displaced ==
    LET d == call.defense_pos
        p == call.player_pos
        len == distance(d, p)
    IN  IF len = 0 THEN d
        ELSE <<d[1] + (110 * (d[1] - p[1])) \div len,
               d[2] + (110 * (d[2] - p[2])) \div len>>

\* v brought into lo..hi
Into(v, lo, hi) == IF v < lo THEN lo ELSE IF v > hi THEN hi ELSE v

\* the goal of the Evade handler is the displaced position with each
\* coordinate brought into [m, extent - m]
EvadeGoalWithMargin(m) ==
    EvadeDone =>
        ret.target = <<Into(Displaced[1], m, SCREEN_WIDTH - m),
                       Into(Displaced[2], m, SCREEN_HEIGHT - m)>>

\* C14 as stated: the margin is half the car's width (15), so that the
\* goal's coordinates range over [15, extent - 15].
C14_EvadeGoalHalfWidthMargin == EvadeGoalWithMargin(CAR_WIDTH \div 2)

\* C14 as amended: the goal of the Evade handler is the defender's
\* position displaced by 1.1 x SAFE_DISTANCE away from the threat, each
\* coordinate brought into [CAR_WIDTH, extent - CAR_WIDTH]: the margin is
\* the car's whole width (30); an unclamped goal lies 110 from the
\* defender, on the ray from the threat through the defender.
C14_EvadeGoalClamped ==
    /\ EvadeGoalWithMargin(CAR_WIDTH)
    /\ (EvadeDone /\ ret.target = Displaced /\ call.defense_pos # call.player_pos) =>
          LET d == call.defense_pos
              p == call.player_pos
              t == ret.target
          IN  /\ Dist2(d, t) = 110 * 110
              /\ (t[1] - d[1]) * (d[2] - p[2]) = (t[2] - d[2]) * (d[1] - p[1])
              /\ (t[1] - d[1]) * (d[1] - p[1]) + (t[2] - d[2]) * (d[2] - p[2]) > 0

\* a goal beyond the right edge is brought back to SCREEN_WIDTH - CAR_WIDTH
C14_Witness ==
    /\ EvadeDone
    /\ Displaced[1] > SCREEN_WIDTH - CAR_WIDTH \div 2
    /\ ret.target[1] = SCREEN_WIDTH - CAR_WIDTH

-----------------------------------------------------------------------------
(* The target validation of FSM.update (fsm.py 126-132) over a sequence of *)
(* updates whose handlers return anything: a position, None, or a pair     *)
(* with a NaN coordinate.  last_target_pos is the instance's field.        *)
ValidPositions == {Pt(0, 0), Pt(100, 300), Pt(500, 400), Pt(970, 770)}

HandlerTargets ==
    ValidPositions \cup {None, <<NaN, 300>>, <<100, NaN>>, <<NaN, NaN>>}

InitValidate ==
    /\ IdleGrid /\ IdleFSM /\ IdleAtt /\ IdleGame
    /\ call = [fn |-> "validate_target"]
    /\ ret = Pending

\* one update, from the handler's return to the return of update
ValidateStep ==
    \E target_position \in HandlerTargets, defense_pos \in ValidPositions :
        \E v \in {validate_target(Self, target_position, defense_pos)} :
            /\ call.fn = "validate_target"
            /\ last_target_pos' = v.self.last_target_pos
            /\ ret' = [done |-> TRUE, target |-> v.target,
                       handler_target |-> target_position,
                       defense_pos |-> defense_pos,
                       prev_last_target_pos |-> last_target_pos]
            /\ UNCHANGED <<call, current_state, patrol_points, current_patrol_index,
                           current_hide_target, state_entry_time, now, obstacles,
                           obs, last_change>>
            /\ UNCHANGED gridVars /\ UNCHANGED attVars /\ UNCHANGED gameVars

NextValidate == ValidateStep
SpecValidate == InitValidate /\ [][NextValidate]_vars

ValidateDone == call.fn = "validate_target" /\ ret.done

\* a position that is not None and has no NaN coordinate
IsValidPosition(p) == p # None /\ p[1] # NaN /\ p[2] # NaN

-----------------------------------------------------------------------------
(* attacker_ai.py: class AttackerAI.  self is the record of the fields the *)
(* path logic reads and writes.  Positions are centres of cars.            *)
PATHFINDING_UPDATE_RATE == 10

\* waypoint_reach_threshold
waypoint_reach_threshold == 25

\* the AttackerAI instance as a record
AttackerSelf ==
    [target_car |-> target_car, path |-> path,
     current_waypoint |-> current_waypoint,
     path_update_counter |-> path_update_counter]

SetAttackerSelf(self) ==
    /\ target_car' = self.target_car
    /\ path' = self.path
    /\ current_waypoint' = self.current_waypoint
    /\ path_update_counter' = self.path_update_counter

\* AttackerAI.set_target
set_target(self, car) ==
    [self EXCEPT !.target_car = car, !.path = <<>>, !.current_waypoint = None,
                 !.path_update_counter = PATHFINDING_UPDATE_RATE]

\* variant for sensitivity: every waypoint counts as reached
waypoint_reached_always(position, waypoint) == TRUE

\* dist_to_waypoint < waypoint_reach_threshold
waypoint_reached(position, waypoint) ==
    Dist2(position, waypoint) < waypoint_reach_threshold * waypoint_reach_threshold

\* variant for sensitivity: a consumed path leaves the last waypoint as
\* the movement target
follow_waypoint_keeps_last(self, position, target_pos) ==
    IF self.path # <<>> /\ self.current_waypoint # None
    THEN IF waypoint_reached(position, self.current_waypoint)
         THEN LET rest == Tail(self.path)
              IN  IF rest # <<>>
                  THEN [self EXCEPT !.path = rest, !.current_waypoint = rest[1]]
                  ELSE [self EXCEPT !.path = <<>>]
         ELSE self
    ELSE IF self.path = <<>> THEN [self EXCEPT !.current_waypoint = target_pos]
    ELSE self

\* the waypoint following of AttackerAI.update: a reached waypoint is
\* popped; without a path the target is aimed at directly
follow_waypoint(self, position, target_pos) ==
    IF self.path # <<>> /\ self.current_waypoint # None
    THEN IF waypoint_reached(position, self.current_waypoint)
         THEN LET rest == Tail(self.path)
              IN  IF rest # <<>>
                  THEN [self EXCEPT !.path = rest, !.current_waypoint = rest[1]]
                  ELSE [self EXCEPT !.path = <<>>, !.current_waypoint = target_pos]
         ELSE self
    ELSE IF self.path = <<>> THEN [self EXCEPT !.current_waypoint = target_pos]
    ELSE self

\* variant for sensitivity: only an empty path asks for a new one
refresh_due_on_empty(self, counter) == self.path = <<>>

\* needs_new_path = not self.path or
\*                  self.path_update_counter >= PATHFINDING_UPDATE_RATE
refresh_due(self, counter) ==
    self.path = <<>> \/ counter >= PATHFINDING_UPDATE_RATE

\* the path logic of AttackerAI.update with a target set: the fields after
\* the call (self), whether a path was asked for (needs_new_path) and
\* whether the pathfinder found none (no_route)
attacker_update(self, position, target_pos, G, W, H) ==
    LET counter == self.path_update_counter + 1
        needs_new_path == refresh_due(self, counter)
        \* the pathfinding logic, for the pathfinder's answer
        replan(new_path) ==
            [self |-> IF new_path # <<>>
                      THEN [self EXCEPT !.path_update_counter = 0,
                                        !.path = new_path,
                                        !.current_waypoint = new_path[1]]
                      ELSE [self EXCEPT !.path_update_counter = 0,
                                        !.path = <<>>,
                                        !.current_waypoint = target_pos],
             no_route |-> new_path = <<>>]
        \* the waypoint following, for the result p of the pathfinding logic
        follow(p) ==
            [self |-> follow_waypoint(p.self, position, target_pos),
             needs_new_path |-> needs_new_path, no_route |-> p.no_route]
    IN  follow(IF needs_new_path
               THEN replan(find_path(position, target_pos, G, W, H))
               ELSE [self |-> [self EXCEPT !.path_update_counter = counter],
                     no_route |-> FALSE])

(* The attacker in a session: main.py builds it, sets its target and calls *)
(* update once a frame.  The velocity and physics step of update moves the *)
(* car; its arithmetic is not modelled, and the car is found at any of the *)
(* positions below afterwards.  The target moves freely between frames.    *)
AttackerGrids ==
    { {}, {<<3, 0>>, <<3, 1>>, <<4, 1>>}, {<<2, 0>>, <<2, 1>>, <<2, 2>>} }

AttackerPositions ==
    {grid_to_world(0, 0), grid_to_world(1, 0), grid_to_world(1, 1),
     grid_to_world(2, 3), <<75, 68>>}

TargetPositions == {grid_to_world(4, 0), grid_to_world(3, 3), <<12, 14>>}

\* AttackerAI.__init__, the pathfinder's grid filled in by setup_game
InitAttacker ==
    /\ IdleFSM /\ IdleGame
    /\ call = NoCall /\ ret = Pending
    /\ grid \in AttackerGrids
    /\ grid_width = AGridW /\ grid_height = AGridH
    /\ target_car = None
    /\ path = <<>>
    /\ current_waypoint = None
    /\ path_update_counter \in 0..(PATHFINDING_UPDATE_RATE \div 2)
    /\ attacker_pos \in AttackerPositions

\* AttackerAI.set_target(target_car)
SetTarget ==
    /\ SetAttackerSelf(set_target(AttackerSelf, <<"player">>))
    /\ call' = [fn |-> "set_target"]
    /\ UNCHANGED <<ret, attacker_pos>>
    /\ UNCHANGED gridVars /\ UNCHANGED fsmVars /\ UNCHANGED gameVars

\* AttackerAI.update(obstacles) without a target: the car stands still
AttackerUpdateNoTarget ==
    /\ target_car = None
    /\ call' = [fn |-> "update", target_pos |-> None]
    /\ UNCHANGED ret /\ UNCHANGED attVars /\ UNCHANGED gameVars
    /\ UNCHANGED gridVars /\ UNCHANGED fsmVars

\* AttackerAI.update(obstacles) with a target
AttackerUpdate ==
    /\ target_car # None
    /\ \E target_pos \in TargetPositions :
          \E r \in {attacker_update(AttackerSelf, attacker_pos, target_pos,
                                    grid, grid_width, grid_height)} :
              /\ SetAttackerSelf(r.self)
              /\ call' = [fn |-> "update", target_pos |-> target_pos,
                          position |-> attacker_pos,
                          before |-> [path |-> path,
                                      path_update_counter |-> path_update_counter],
                          needs_new_path |-> r.needs_new_path,
                          no_route |-> r.no_route,
                          consumed |-> ~r.no_route /\ r.self.path = <<>>]
    /\ attacker_pos' \in AttackerPositions
    /\ UNCHANGED ret
    /\ UNCHANGED gridVars /\ UNCHANGED fsmVars /\ UNCHANGED gameVars

NextAttacker == SetTarget \/ AttackerUpdateNoTarget \/ AttackerUpdate
SpecAttacker == InitAttacker /\ [][NextAttacker]_vars

AttackerUpdateDone == call.fn = "update" /\ target_car # None

\* C17: after every update with a target set, current_waypoint is the
\* first element of path when path is not empty and the target's position
\* at that update when it is (no route found, or every waypoint consumed);
\* it is never None.
C17_EmptyPathTargetsDirectly ==
    AttackerUpdateDone =>
        /\ current_waypoint # None
        /\ current_waypoint = IF path # <<>> THEN path[1] ELSE call.target_pos
        /\ call.no_route => path = <<>>

\* the last waypoint of a path is consumed in an update that did not ask
\* for a new path, and the target is aimed at directly
C17_Witness ==
    /\ AttackerUpdateDone
    /\ ~call.needs_new_path /\ call.consumed
    /\ path = <<>>
    /\ current_waypoint = call.target_pos

\* the pathfinder finds no route and the target is aimed at directly
C17_WitnessNoRoute ==
    /\ AttackerUpdateDone
    /\ call.no_route
    /\ path = <<>>
    /\ current_waypoint = call.target_pos

-----------------------------------------------------------------------------
(* ai/prediction.py: class PositionPredictor.  Times are counted in frames *)
(* and predicted coordinates are kept as numerators over FPS, so that      *)
(* position + velocity * (frames / FPS) is exact: the point <<x, y>> of    *)
(* the model is the position (x / FPS, y / FPS).                           *)
FPS == 60
PREDICTION_STEPS == 60
PREDICTION_INTERVAL == 5

\* variant for sensitivity: the velocity taken as a displacement per frame
predict_linear_per_frame(position, velocity, frames) ==
    <<position[1] * FPS + velocity[1] * frames * FPS,
      position[2] * FPS + velocity[2] * frames * FPS>>

\* predict_linear(position, velocity, time_delta), time_delta = frames / FPS
predict_linear(position, velocity, frames) ==
    <<position[1] * FPS + velocity[1] * frames,
      position[2] * FPS + velocity[2] * frames>>

\* variant for sensitivity: a last point for the steps left over
num_points_rounded_up(steps, interval) == (steps + interval - 1) \div interval

\* num_points = steps // interval
num_points(steps, interval) == steps \div interval

\* predict_future_path(position, velocity, steps, interval)
predict_future_path(position, velocity, steps, interval) ==
    IF FPS <= 0 THEN <<>>
    ELSE IF interval <= 0 THEN <<>>
    ELSE [i \in 1..num_points(steps, interval) |->
             predict_linear(position, velocity, interval * i)]

\* self.max_history
max_history == 10

\* add_observation(position, velocity, timestamp) on the history list
add_observation(history, observation) ==
    LET appended == Append(history, observation)
    IN  IF Len(appended) > max_history THEN Tail(appended) ELSE appended

PredictPositions  == {Pt(0, 0), Pt(100, 50)}
PredictVelocities == {<<10, 0>>, <<0, 0>>, <<-3, 4>>, <<60, -120>>}
PredictSteps      == {PREDICTION_STEPS, 0, 4, 30, -5}
PredictIntervals  == {PREDICTION_INTERVAL, 1, 0, -1, 7}

\* the histories of a new predictor and of one that was given one and
\* eleven observations
PredictHistories ==
    LET observation(t) == <<Pt(t, 0), <<1, 0>>, t>>
        RECURSIVE observed(_)
        observed(n) == IF n = 0 THEN <<>>
                       ELSE add_observation(observed(n - 1), observation(n))
    IN  {observed(0), observed(1), observed(max_history + 1)}

InitPredict ==
    /\ \E position \in PredictPositions, velocity \in PredictVelocities,
          steps \in PredictSteps, interval \in PredictIntervals,
          history \in PredictHistories :
          call = [fn |-> "predict_future_path", position |-> position,
                  velocity |-> velocity, steps |-> steps, interval |-> interval,
                  history |-> history]
    /\ ret = Pending
    /\ IdleGrid /\ IdleFSM /\ IdleAtt /\ IdleGame

CallPredict ==
    /\ call.fn = "predict_future_path" /\ ~ret.done
    /\ ret' = [done |-> TRUE,
               path |-> predict_future_path(call.position, call.velocity,
                                            call.steps, call.interval),
               \* self.history, which lines 43-68 neither read nor assign
               history |-> call.history]
    /\ UNCHANGED call /\ UNCHANGED gridVars /\ UNCHANGED fsmVars /\ UNCHANGED attVars /\ UNCHANGED gameVars

NextPredict == CallPredict
SpecPredict == InitPredict /\ [][NextPredict]_vars

PredictDone == call.fn = "predict_future_path" /\ ret.done

\* the call of the scenario: position (0, 0), velocity (10, 0), 60 steps,
\* interval 5 (the tick rate is FPS = 60)
PredictScenario ==
    /\ PredictDone
    /\ call.position = Pt(0, 0) /\ call.velocity = <<10, 0>>
    /\ call.steps = 60 /\ call.interval = 5

\* the predicted point p is within one unit of the position q
Near(p, q) ==
    /\ p[1] - q[1] * FPS <= FPS /\ q[1] * FPS - p[1] <= FPS
    /\ p[2] - q[2] * FPS <= FPS /\ q[2] * FPS - p[2] <= FPS

\* C18 as stated: the scenario returns 12 points, the last approximately
\* (100, 0).
C18_LastPointAt100 ==
    PredictScenario =>
        /\ Len(ret.path) = 12
        /\ Near(ret.path[Len(ret.path)], Pt(100, 0))

\* C18: the scenario returns exactly 12 points, the i-th at (10 i / 12, 0),
\* so the last is (10, 0): 10 units per second for 60 frames of 1/60 s.
\* Every call with a positive interval returns steps // interval points
\* (none when that is not positive), a call with interval <= 0 none.
C18_PredictionScenario ==
    /\ PredictScenario =>
          /\ Len(ret.path) = 12
          /\ ret.path[12] = <<10 * FPS, 0>>
          /\ Near(ret.path[12], Pt(10, 0))
          /\ \A i \in 1..12 : 12 * ret.path[i][1] = 10 * FPS * i /\ ret.path[i][2] = 0
    /\ PredictDone =>
          Len(ret.path) = IF call.interval > 0 /\ call.steps >= call.interval
                          THEN call.steps \div call.interval ELSE 0

C18_Witness ==
    /\ PredictScenario
    /\ Len(ret.path) = 12
    /\ ret.path[12] = <<10 * FPS, 0>>

\* C34: predict_future_path returns floor(steps / interval) points, the
\* i-th (from 1) at position + velocity * (i * interval / FPS), and no
\* point when the interval (or the tick rate FPS) is not positive; the
\* result is the same whatever the observation history holds, and the
\* history is left as it was.
C34_PredictedPoints ==
    PredictDone =>
        /\ (call.interval <= 0 \/ FPS <= 0) => ret.path = <<>>
        /\ (call.interval > 0 /\ FPS > 0 /\ call.steps >= 0) =>
              /\ Len(ret.path) = call.steps \div call.interval
              /\ \A i \in 1..Len(ret.path) :
                     ret.path[i] =
                         <<call.position[1] * FPS + call.velocity[1] * i * call.interval,
                           call.position[2] * FPS + call.velocity[2] * i * call.interval>>
        /\ ret.history = call.history

\* 30 steps at interval 7 give 4 points, for a predictor with a full history
C34_Witness ==
    /\ PredictDone
    /\ call.steps = 30 /\ call.interval = 7
    /\ Len(ret.path) = 4
    /\ call.velocity = <<-3, 4>> /\ call.position = Pt(100, 50)
    /\ ret.path[4] = <<100 * FPS - 3 * 28, 50 * FPS + 4 * 28>>
    /\ Len(call.history) = max_history

-----------------------------------------------------------------------------
(* FSM.handle_hide as a function of the cached hide target and the two     *)
(* positions.  The cached target is a spot an earlier search returned for  *)
(* the same obstacles and some earlier position of the threat.             *)
HandlerObstacleLists ==
    {<<>>, <<Obstacle(280, 280)>>, <<Obstacle(280, 280), Obstacle(580, 280)>>}

HandlerPlayers == {Pt(100, 300), Pt(500, 300), Pt(300, 100), Pt(450, 300)}

HandlerDefenders ==
    {Pt(380, 300), Pt(390, 310), Pt(400, 300), Pt(220, 300), Pt(500, 400),
     Pt(300, 390)}

\* the spots a search can have cached for the obstacle list os
HideCaches(os) ==
    {None} \cup
    {potential_spot(os[c[1]], c[2]) :
        c \in {e \in (1..Len(os)) \X HandlerPlayers :
                 /\ \A j \in 1..Len(os) : SpotExact(os[j], e[2])
                 /\ in_margin(potential_spot(os[e[1]], e[2]))
                 /\ _is_safe(potential_spot(os[e[1]], e[2]), e[2], os)}}

InitHideHandler ==
    /\ obstacles \in HandlerObstacleLists
    /\ current_state = "HIDE"
    /\ current_hide_target \in HideCaches(obstacles)
    /\ patrol_points = <<>>
    /\ current_patrol_index = 0
    /\ last_target_pos = current_hide_target
    /\ state_entry_time = 0
    /\ now = 0
    /\ obs = [op |-> "init"]
    /\ last_change = 0
    /\ call = NoCall /\ ret = Pending
    /\ IdleGrid /\ IdleAtt /\ IdleGame

\* FSM.handle_hide(defense_car, player_car, obstacles)
CallHandleHide ==
    /\ \E defense_pos \in HandlerDefenders, player_pos \in HandlerPlayers :
          /\ EvadeExact(defense_pos, player_pos)
          /\ \A i \in 1..Len(obstacles) : SpotExact(obstacles[i], player_pos)
          /\ \E ranked \in Rankings(candidate_obstacles(defense_pos, player_pos,
                                                        obstacles)) :
                \E r \in {handle_hide(Self, defense_pos, player_pos,
                                       obstacles, ranked)} :
                    /\ SetSelf(r.self)
                    /\ call' = [fn |-> "handle_hide", defense_pos |-> defense_pos,
                                player_pos |-> player_pos, ranked |-> ranked,
                                cached |-> current_hide_target]
                    /\ ret' = [done |-> TRUE, target |-> r.target]
    /\ UNCHANGED <<now, obstacles, obs, last_change>>
    /\ UNCHANGED gridVars /\ UNCHANGED attVars /\ UNCHANGED gameVars

NextHideHandler == CallHandleHide
SpecHideHandler == InitHideHandler /\ [][NextHideHandler]_vars

HandleHideDone == call.fn = "handle_hide" /\ ret.done

\* the call found a cached target and the defender within 20 of it
NearCachedTarget ==
    /\ HandleHideDone
    /\ call.cached # None
    /\ Dist2(call.defense_pos, call.cached) < 20 * 20

\* the outcome of a fresh search in this call: the spot found is cached and
\* returned; without a spot the cache is empty and the Evade goal returned
FreshSearch ==
    LET spot == find_best_hiding_spot(call.defense_pos, call.player_pos,
                                      obstacles, call.ranked)
    IN  IF spot # None
        THEN current_hide_target = spot /\ ret.target = spot
        ELSE /\ current_hide_target = None
             /\ ret.target = evade_target(call.defense_pos, call.player_pos)

\* C21: handle_hide called with a cached target and the defender within 20
\* of it returns the defender's position and leaves the cache alone when
\* the defender is hidden from the threat; otherwise the cache is cleared
\* and the result is that of a fresh search in the same call.
C21_HideNearCachedTarget ==
    NearCachedTarget =>
        IF _is_safe(call.defense_pos, call.player_pos, obstacles)
        THEN ret.target = call.defense_pos /\ current_hide_target = call.cached
        ELSE FreshSearch

\* the defender stands next to, not on, the cached target and is hidden
C21_Witness ==
    /\ NearCachedTarget
    /\ call.defense_pos # call.cached
    /\ _is_safe(call.defense_pos, call.player_pos, obstacles)
    /\ ret.target = call.defense_pos

\* the defender is at the cached target, in view of the threat, and a new
\* spot replaces the cached one
C21_WitnessExposed ==
    /\ NearCachedTarget
    /\ ~_is_safe(call.defense_pos, call.player_pos, obstacles)
    /\ current_hide_target # None /\ current_hide_target # call.cached

-----------------------------------------------------------------------------
\* an update that found the FSM in Hide with a cached target and left it
\* in Hide
StaysInHide ==
    /\ UpdateDone
    /\ obs.prev.current_state = "HIDE" /\ obs.post.current_state = "HIDE"
    /\ obs.prev.current_hide_target # None

\* C22: an update that finds the FSM in Hide and leaves it there keeps the
\* cached hide target, unless the defender is within 20 of it (reached) or
\* the line of sight from the threat to it is no longer blocked.  Reached
\* with the defender hidden, the target is kept as well.
C22_HideTargetPersists ==
    StaysInHide =>
        /\ (~obs.near_target /\ obs.target_safe) =>
               obs.post.current_hide_target = obs.prev.current_hide_target
        /\ (obs.near_target /\ obs.safe) =>
               obs.post.current_hide_target = obs.prev.current_hide_target

\* the cached target is kept, away from it, although a search from the
\* defender's present position finds another spot
C22_Witness ==
    /\ StaysInHide
    /\ ~obs.near_target /\ obs.target_safe
    /\ obs.post.current_hide_target = obs.prev.current_hide_target
    /\ ~obs.no_spot /\ obs.fresh_spot # obs.prev.current_hide_target

-----------------------------------------------------------------------------
\* an update whose handler is that of ReturnToSafeArea
ReturnHandled == UpdateDone /\ obs.mid.current_state = "RETURN_TO_SAFE_AREA"

\* C23: an update that runs the ReturnToSafeArea handler returns the centre
\* of the playable area; with the defender within 50 of the centre the
\* state after the update is Patrol when a route is configured and Idle
\* otherwise, the dwell time elapsed or not, and the state timer restarts;
\* further away the state is still ReturnToSafeArea.
C23_ReturnToSafeArea ==
    ReturnHandled =>
        /\ obs.target = <<SCREEN_WIDTH \div 2, SCREEN_HEIGHT \div 2>>
        /\ obs.at_center =>
               /\ obs.post.current_state = RestState
               /\ obs.post.state_entry_time = obs.t
        /\ ~obs.at_center => obs.post = obs.mid

\* the centre is reached before the dwell time has passed
C23_Witness ==
    /\ ReturnHandled
    /\ obs.at_center /\ ~obs.allow
    /\ obs.post.current_state = "PATROL"

-----------------------------------------------------------------------------
(* AStar._find_nearest_free_cell pass by pass, called by find_path for a   *)
(* blocked start cell.  ret holds the locals of the call: the queue, the   *)
(* visited set, the cell returned; and for the claims the entries whose    *)
(* neighbours were explored and the number of passes.                      *)
NearestGrids ==
    { {<<2, 0>>, <<2, 1>>, <<2, 2>>, <<0, 1>>, <<1, 1>>},
      (0..2) \X (0..2),
      ((0..2) \X (0..2)) \cup {<<3, 0>>, <<3, 1>>, <<4, 1>>},
      {<<1, 2>>, <<3, 2>>},
      {<<4, 0>>} }

NearestTargets == {<<0, 0>>, <<4, 1>>, <<4, 3>>, <<1, 3>>}

InitNearest ==
    /\ IdleFSM /\ IdleAtt /\ IdleGame
    /\ grid \in NearestGrids
    /\ grid_width = AGridW
    /\ grid_height = AGridH
    /\ \E start_node \in grid, target_node \in NearestTargets :
          /\ in_bounds(start_node, grid_width, grid_height)
          /\ call = [fn |-> "_find_nearest_free_cell",
                     start_node |-> start_node, target_node |-> target_node]
          /\ ret = [done |-> FALSE, returned |-> FALSE, cell |-> None,
                    path |-> <<>>,
                    queue |-> {<<0, heuristic(start_node, target_node),
                                 start_node[1], start_node[2]>>},
                    visited |-> {start_node},
                    explored |-> {}, passes |-> 0]

\* one pass of the while loop
NearestPop ==
    /\ call.fn = "_find_nearest_free_cell" /\ ~ret.done
    /\ ret.queue # {}
    /\ \E p \in {nearest_pop(ret.queue, ret.visited, call.target_node,
                              Max(grid_width, grid_height) \div 2,
                              grid, grid_width, grid_height)} :
          ret' = [ret EXCEPT !.done = p.found # None,
                             !.cell = p.found,
                             !.queue = p.queue,
                             !.visited = p.visited,
                             !.explored = IF p.explored
                                          THEN @ \cup {<<p.dist, p.node[1], p.node[2]>>}
                                          ELSE @,
                             !.passes = @ + 1]
    /\ UNCHANGED call /\ UNCHANGED gridVars /\ UNCHANGED fsmVars /\ UNCHANGED attVars /\ UNCHANGED gameVars

\* the queue is used up: return None
NearestFail ==
    /\ call.fn = "_find_nearest_free_cell" /\ ~ret.done
    /\ ret.queue = {}
    /\ ret' = [ret EXCEPT !.done = TRUE, !.cell = None]
    /\ UNCHANGED call /\ UNCHANGED gridVars /\ UNCHANGED fsmVars /\ UNCHANGED attVars /\ UNCHANGED gameVars

\* find_path, which made the call for its blocked start cell, returns
FindPathReturn ==
    /\ call.fn = "_find_nearest_free_cell" /\ ret.done /\ ~ret.returned
    /\ \E found_path \in {find_path(
                        grid_to_world(call.start_node[1], call.start_node[2]),
                        grid_to_world(call.target_node[1], call.target_node[2]),
                        grid, grid_width, grid_height)} :
           ret' = [ret EXCEPT !.returned = TRUE, !.path = found_path]
    /\ UNCHANGED call /\ UNCHANGED gridVars /\ UNCHANGED fsmVars /\ UNCHANGED attVars /\ UNCHANGED gameVars

NextNearest == NearestPop \/ NearestFail \/ FindPathReturn
SpecNearest == InitNearest /\ [][NextNearest]_vars /\ WF_vars(NearestPop \/ NearestFail)

NearestDone == call.fn = "_find_nearest_free_cell" /\ ret.done

\* the cost of the cheapest walk of straight and diagonal steps from a to b
\* over the cells of the grid, blocked or free
WalkCost(a, b) ==
    LET dx == Abs(a[1] - b[1])
        dy == Abs(a[2] - b[2])
    IN  diagonal_cost * Min(dx, dy) + straight_cost * (Max(dx, dy) - Min(dx, dy))

\* search_radius = max(self.grid_width, self.grid_height) // 2
SearchRadius == Max(grid_width, grid_height) \div 2

\* C26: on a grid with a free cell within the search radius of start_node,
\* _find_nearest_free_cell returns a free cell than which no free cell is
\* nearer to start_node (step cost 1.0 straight, 1.414 diagonal).
C26_NearestFreeCell ==
    (/\ NearestDone
     /\ \E c \in FreeCells : WalkCost(call.start_node, c) <= SearchRadius * straight_cost)
    => /\ ret.cell \in FreeCells
       /\ \A c \in FreeCells :
              WalkCost(call.start_node, ret.cell) <= WalkCost(call.start_node, c)

\* what holds in every state of a search
NearestBounded ==
    (call.fn = "_find_nearest_free_cell") =>
        /\ \A e \in ret.explored : e[1] < SearchRadius * straight_cost
        /\ ret.passes <= grid_width * grid_height
        /\ (ret.done /\ ret.cell # None) => ret.cell \in FreeCells
        /\ (ret.done /\ ret.cell = None) =>
               /\ ret.queue = {}
               /\ ret.visited \subseteq grid
        /\ (ret.returned /\ ret.cell = None) => ret.path = <<>>

\* C27: every call of _find_nearest_free_cell returns, after at most one
\* pass per cell of the grid; no cell whose distance from the seed is at or
\* beyond the search radius has its neighbours explored; when no free cell
\* was popped the result is None and find_path returns the empty path.
C27_NearestSearchBounded ==
    /\ []NearestBounded
    /\ <>NearestDone

\* the search gives up although the grid has free cells, having explored
\* the neighbours of some cells, and find_path returns the empty path
C27_Witness ==
    /\ NearestDone /\ ret.returned
    /\ ret.cell = None /\ FreeCells # {}
    /\ ret.explored # {}
    /\ \E v \in ret.visited : ~(\E e \in ret.explored : <<e[2], e[3]>> = v)
    /\ ret.path = <<>>

-----------------------------------------------------------------------------
\* The A* main loop of find_path, one pass per step

SearchGrids ==
    { {},
      {<<3, 0>>, <<3, 1>>, <<4, 1>>},
      {<<2, 0>>, <<2, 1>>, <<2, 2>>},
      {<<0, 1>>, <<1, 1>>, <<1, 2>>, <<3, 2>>} }

SearchNodes == {<<0, 0>>, <<4, 0>>, <<0, 3>>, <<4, 3>>, <<2, 3>>}

\* the state find_path has built when it enters the loop (lines 107-120)
InitSearch ==
    /\ IdleFSM /\ IdleAtt /\ IdleGame
    /\ grid \in SearchGrids
    /\ grid_width = AGridW
    /\ grid_height = AGridH
    /\ \E start_node \in SearchNodes \ grid, end_node \in SearchNodes \ grid :
           /\ start_node # end_node
           /\ call = [fn |-> "find_path_loop", start_node |-> start_node,
                      end_node |-> end_node]
           /\ ret = [done |-> FALSE, path |-> <<>>,
                     st |-> [open      |-> {<<0, heuristic(start_node, end_node),
                                              start_node[1], start_node[2]>>},
                             closed    |-> {},
                             came_from |-> [n \in {start_node} |-> None],
                             g_score   |-> [n \in {start_node} |-> 0]],
                     expanded |-> <<>>, skipped |-> {}, passes |-> 0]

\* one pass of the loop: pop, goal test, closed-set test, neighbours
SearchPop ==
    /\ call.fn = "find_path_loop" /\ ~ret.done /\ ret.st.open # {}
    /\ \E p \in {astar_pop(ret.st, call.end_node, grid, grid_width, grid_height)} :
           ret' = [ret EXCEPT
                      !.done = p.reached,
                      !.path = p.path,
                      !.st = p.st,
                      !.expanded = IF p.explored THEN Append(@, p.node) ELSE @,
                      !.skipped = IF ~p.reached /\ ~p.explored
                                  THEN @ \cup {p.node} ELSE @,
                      !.passes = @ + 1]
    /\ UNCHANGED call /\ UNCHANGED gridVars /\ UNCHANGED fsmVars /\ UNCHANGED attVars /\ UNCHANGED gameVars

\* the open list is empty: no path found
SearchFail ==
    /\ call.fn = "find_path_loop" /\ ~ret.done /\ ret.st.open = {}
    /\ ret' = [ret EXCEPT !.done = TRUE, !.path = <<>>]
    /\ UNCHANGED call /\ UNCHANGED gridVars /\ UNCHANGED fsmVars /\ UNCHANGED attVars /\ UNCHANGED gameVars

NextSearch == SearchPop \/ SearchFail
SpecSearch == InitSearch /\ [][NextSearch]_vars /\ WF_vars(NextSearch)

SearchDone == call.fn = "find_path_loop" /\ ret.done

\* what holds in every state of a search
ExpandedOnce ==
    (call.fn = "find_path_loop") =>
        /\ \A i, j \in 1..Len(ret.expanded) :
               ret.expanded[i] = ret.expanded[j] => i = j
        /\ \A i \in 1..Len(ret.expanded) : ret.expanded[i] \in FreeCells
        /\ ret.skipped \subseteq ret.st.closed
        /\ ret.passes <= 8 * grid_width * grid_height + 1

\* C28: every A* search returns, and within one search no cell has its
\* neighbours explored more than once: an entry popped for a cell already
\* in the closed set is skipped.
C28_SearchTerminatesExpandingOnce ==
    /\ []ExpandedOnce
    /\ <>SearchDone

\* a finished search in which a second entry of an explored cell was popped
\* and skipped
C28_Witness ==
    /\ SearchDone
    /\ \E n \in ret.skipped : \E i \in 1..Len(ret.expanded) : ret.expanded[i] = n
    /\ Len(ret.expanded) >= 8

-----------------------------------------------------------------------------
\* Claims on the attacker's path refresh and waypoint consumption

\* C29: an update with a target set asks the pathfinder for a path exactly
\* when the path it starts with is empty or the counter, once incremented,
\* has reached PATHFINDING_UPDATE_RATE; the counter is then 0, and
\* otherwise one more than before with the path kept up to the waypoint
\* consumed; after every update the counter is in 0..9.
C29_PathRefreshCadence ==
    AttackerUpdateDone =>
        /\ call.needs_new_path <=>
               (\/ call.before.path = <<>>
                \/ call.before.path_update_counter + 1 >= PATHFINDING_UPDATE_RATE)
        /\ call.needs_new_path => path_update_counter = 0
        /\ ~call.needs_new_path =>
               /\ path_update_counter = call.before.path_update_counter + 1
               /\ path \in {call.before.path, Tail(call.before.path)}
        /\ path_update_counter \in 0..(PATHFINDING_UPDATE_RATE - 1)

\* the ninth update in a row that reuses a path
C29_WitnessReuse ==
    /\ AttackerUpdateDone
    /\ ~call.needs_new_path
    /\ path_update_counter = PATHFINDING_UPDATE_RATE - 1
    /\ path # <<>>

\* the update after nine that reused the path: the path is not empty and a
\* new one is asked for
C29_Witness ==
    /\ AttackerUpdateDone
    /\ call.before.path # <<>>
    /\ call.before.path_update_counter = PATHFINDING_UPDATE_RATE - 1
    /\ call.needs_new_path
    /\ path_update_counter = 0

\* the path the waypoint following of an update starts with
FollowedPath ==
    IF call.needs_new_path
    THEN find_path(call.position, call.target_pos, grid, grid_width, grid_height)
    ELSE call.before.path

\* C30: the waypoint following of an update leaves the path as it found it
\* or without its first waypoint, the latter only when the car is within
\* waypoint_reach_threshold of that waypoint; an update that asks for no
\* new path therefore leaves a suffix of the path it started with.
C30_WaypointConsumption ==
    AttackerUpdateDone =>
        /\ \/ path = FollowedPath
           \/ /\ FollowedPath # <<>>
              /\ path = Tail(FollowedPath)
              /\ Dist2(call.position, FollowedPath[1])
                     < waypoint_reach_threshold * waypoint_reach_threshold
        /\ ~call.needs_new_path =>
               \E k \in 0..1 : path = SubSeq(call.before.path, k + 1,
                                             Len(call.before.path))

\* an update that reuses a path of several waypoints and consumes the
\* first, the car being within the threshold of it
C30_Witness ==
    /\ AttackerUpdateDone
    /\ ~call.needs_new_path
    /\ Len(call.before.path) >= 3
    /\ path = Tail(call.before.path)

\* an update that reuses a path and consumes nothing, the car being away
\* from the first waypoint
C30_WitnessKept ==
    /\ AttackerUpdateDone
    /\ ~call.needs_new_path
    /\ path # <<>> /\ path = call.before.path
    /\ Dist2(call.position, path[1])
           >= waypoint_reach_threshold * waypoint_reach_threshold


-----------------------------------------------------------------------------
(* defender_ai.py / attacker_ai.py: the cars.  A car's x, y, vx and vy are *)
(* floats; they are kept as integers in units of 1/10000 (Fine), which is  *)
(* exact for velocities given in tenths through the three damping factors  *)
(* one update_physics can apply.                                           *)
Fine == 100 * 100

\* Python's int(): truncation toward zero, of a value in units of 1/Fine
int(v) == IF v >= 0 THEN v \div Fine ELSE -((-v) \div Fine)

\* v * (tenths / 10), e.g. vx *= -0.5
Times(v, tenths) == IF v * tenths >= 0 THEN (v * tenths) \div 10
                    ELSE -((-(v * tenths)) \div 10)

\* self.rect after rect.x = int(self.x), rect.y = int(self.y)
car_rect(car) ==
    [x |-> int(car.x), y |-> int(car.y), w |-> CAR_WIDTH, h |-> CAR_HEIGHT]

\* pygame.Rect.colliderect: the interiors overlap (touching edges do not)
colliderect(r, o) ==
    /\ r.x < o.x + o.size /\ r.x + r.w > o.x
    /\ r.y < o.y + o.size /\ r.y + r.h > o.y

\* "Obstacle Collision Resolution (Revert & Bounce)": the position goes
\* back to the one before the move and the velocity bounces on the
\* dominant axis
revert_and_bounce(car, moved) ==
    IF Abs(moved.vx) > Abs(moved.vy)
    THEN [moved EXCEPT !.x = car.x, !.y = car.y,
                       !.vx = Times(moved.vx, -5), !.vy = Times(moved.vy, 8)]
    ELSE [moved EXCEPT !.x = car.x, !.y = car.y,
                       !.vy = Times(moved.vy, -5), !.vx = Times(moved.vx, 8)]

\* "Screen Boundary Collision", x then y
screen_x(car) ==
    IF car.x < 0
    THEN [car EXCEPT !.x = 0, !.vx = Times(car.vx, -3), !.vy = Times(car.vy, 8)]
    ELSE IF car.x > (SCREEN_WIDTH - CAR_WIDTH) * Fine
    THEN [car EXCEPT !.x = (SCREEN_WIDTH - CAR_WIDTH) * Fine,
                     !.vx = Times(car.vx, -3), !.vy = Times(car.vy, 8)]
    ELSE car

screen_y(car) ==
    IF car.y < 0
    THEN [car EXCEPT !.y = 0, !.vy = Times(car.vy, -3), !.vx = Times(car.vx, 8)]
    ELSE IF car.y > (SCREEN_HEIGHT - CAR_HEIGHT) * Fine
    THEN [car EXCEPT !.y = (SCREEN_HEIGHT - CAR_HEIGHT) * Fine,
                     !.vy = Times(car.vy, -3), !.vx = Times(car.vx, 8)]
    ELSE car

\* DefenderAI.update_physics(obstacles), AttackerAI.update_physics(obstacles)
update_physics(car, obsts) ==
    LET moved == [car EXCEPT !.x = car.x + car.vx, !.y = car.y + car.vy]
        collided == \E i \in 1..Len(obsts) : colliderect(car_rect(moved), obsts[i])
        resolved == IF collided THEN revert_and_bounce(car, moved) ELSE moved
    IN  screen_y(screen_x(resolved))

-----------------------------------------------------------------------------
(* update_physics called once on a car that stands on the screen, clear   *)
(* of the obstacles, with a velocity of at most the defender's max speed. *)
PhysicsObstacleLists ==
    {<<>>, <<Obstacle(28, 141)>>, <<Obstacle(64, 100)>>,
     <<Obstacle(940, 720), Obstacle(500, 400)>>}

\* tenths of a unit
PhysicsXs == {0, 10, 300, 340, 4600, 9695, 9700}
PhysicsYs == {0, 15, 1000, 3600, 7600}

\* velocities of length 4.0, 3.5 and 0, in tenths of a unit per frame
PhysicsVelocities ==
    {<<0, 0>>, <<40, 0>>, <<-40, 0>>, <<0, 40>>, <<0, -40>>,
     <<-32, 24>>, <<32, -24>>, <<24, 32>>, <<-24, -32>>, <<-28, 21>>, <<35, 0>>}

Car(x, y, vx, vy) ==
    [x |-> x * (Fine \div 10), y |-> y * (Fine \div 10),
     vx |-> vx * (Fine \div 10), vy |-> vy * (Fine \div 10)]

\* the car's rect overlaps an obstacle's
Overlaps(car, obsts) ==
    \E i \in 1..Len(obsts) : colliderect(car_rect(car), obsts[i])

InitPhysics ==
    /\ IdleGrid /\ IdleFSM /\ IdleAtt /\ IdleGame
    /\ \E x \in PhysicsXs, y \in PhysicsYs, v \in PhysicsVelocities,
          os \in PhysicsObstacleLists :
          /\ ~Overlaps(Car(x, y, v[1], v[2]), os)
          /\ call = [fn |-> "update_physics", car |-> Car(x, y, v[1], v[2]),
                     obstacles |-> os]
    /\ ret = Pending

CallUpdatePhysics ==
    /\ call.fn = "update_physics" /\ ~ret.done
    /\ ret' = [done |-> TRUE, car |-> update_physics(call.car, call.obstacles)]
    /\ UNCHANGED call
    /\ UNCHANGED gridVars /\ UNCHANGED fsmVars /\ UNCHANGED attVars /\ UNCHANGED gameVars

NextPhysics == CallUpdatePhysics
SpecPhysics == InitPhysics /\ [][NextPhysics]_vars

PhysicsDone == call.fn = "update_physics" /\ ret.done

\* C40: a car whose rect overlaps no obstacle before update_physics
\* overlaps none after it, whatever the velocity (up to max speed) and the
\* obstacles, the frames in which the screen-boundary clamp moves the car
\* after the collision check included.
C40_PhysicsKeepsCarsOut ==
    (PhysicsDone /\ ~Overlaps(call.car, call.obstacles))
        => ~Overlaps(ret.car, call.obstacles)

\* the same for the frames in which the clamp leaves the car where the
\* collision check saw it
C40_Unclamped ==
    (/\ PhysicsDone /\ ~Overlaps(call.car, call.obstacles)
     /\ \/ car_rect(ret.car) = car_rect(call.car)
        \/ /\ ret.car.x = call.car.x + call.car.vx
           /\ ret.car.y = call.car.y + call.car.vy)
        => ~Overlaps(ret.car, call.obstacles)

C40_WitnessReverted ==
    /\ PhysicsDone
    /\ call.car.vx # 0
    /\ ret.car.x = call.car.x /\ ret.car.y = call.car.y
    /\ Overlaps([call.car EXCEPT !.x = call.car.x + call.car.vx,
                                 !.y = call.car.y + call.car.vy], call.obstacles)


-----------------------------------------------------------------------------
(* defender_ai.py: one DefenderAI.update, step by step.  The session is a  *)
(* corridor: the centres of the cars, of the obstacles and of the goals    *)
(* lie on one horizontal line, so that every unit vector is (1, 0),        *)
(* (-1, 0) or zero and the steering is exact.                              *)
max_speed == 4

\* DefenderAI.get_position(): the centre of the car, in whole units
get_position(car) ==
    <<car.x \div Fine + CAR_WIDTH \div 2, car.y \div Fine + CAR_HEIGHT \div 2>>

\* the car stands on a lattice point
OnLattice(car) == car.x % Fine = 0 /\ car.y % Fine = 0

\* base_avoidance_radius = self.width * 2.5, in units of 1/Fine
base_avoidance_radius == (CAR_WIDTH * 5 * Fine) \div 2

\* the obstacle taken for the cover: the first of those nearest to the hide
\* target among the ones with d < obs.size / 2.0 + BUFFER_BEHIND_OBSTACLE * 1.2,
\* as an index, 0 for none
cover_obstacle(hide_target_ref, obsts) ==
    LET near(i) ==
            100 * Dist2(hide_target_ref, rect_center(obsts[i]))
                < (5 * obsts[i].size + 12 * BUFFER_BEHIND_OBSTACLE)
                  * (5 * obsts[i].size + 12 * BUFFER_BEHIND_OBSTACLE)
        better(i, j) ==
            \/ Dist2(hide_target_ref, rect_center(obsts[i]))
                   < Dist2(hide_target_ref, rect_center(obsts[j]))
            \/ /\ Dist2(hide_target_ref, rect_center(obsts[i]))
                      = Dist2(hide_target_ref, rect_center(obsts[j]))
               /\ i <= j
        C == {i \in 1..Len(obsts) : near(i)}
    IN  IF hide_target_ref = None \/ C = {} THEN 0
        ELSE CHOOSE i \in C : \A j \in C : better(i, j)

\* the strength of the push away from obstacle i, times 10 * radius:
\* (1.0 - obstacle_dist / base_avoidance_radius) * avoidance_modifier
avoidance_strength(car_center_x, obsts, i, cover) ==
    LET obstacle_dist == Abs(car_center_x - rect_center(obsts[i])[1] * Fine)
        avoidance_modifier == IF i = cover THEN 2 ELSE 10
    IN  IF obstacle_dist < base_avoidance_radius
        THEN (base_avoidance_radius - obstacle_dist) * avoidance_modifier
        ELSE 0

\* avoidance_dx, times 10 * radius, summed over the obstacles from i on
RECURSIVE avoidance_dx(_, _, _, _)
avoidance_dx(car_center_x, obsts, i, cover) ==
    IF i > Len(obsts) THEN 0
    ELSE Sign(car_center_x - rect_center(obsts[i])[1] * Fine)
             * avoidance_strength(car_center_x, obsts, i, cover)
         + avoidance_dx(car_center_x, obsts, i + 1, cover)

\* DefenderAI.calculate_movement_velocity(move_target_pos, obstacles), for
\* an FSM in state fsm.current_state with cached target fsm.current_hide_target
calculate_movement_velocity(car, fsm, move_target_pos, obsts) ==
    IF move_target_pos = None THEN [car EXCEPT !.vx = 0, !.vy = 0]
    ELSE
    LET car_center_x == car.x + (CAR_WIDTH * Fine) \div 2
        target_dx == move_target_pos[1] * Fine - car_center_x
        dist_to_target == Abs(target_dx)
        norm_target_dx == Sign(target_dx)
        target_speed ==
            IF fsm.current_state = "HIDE" /\ dist_to_target < CAR_WIDTH * 2 * Fine
            THEN Max(Fine, (max_speed * dist_to_target) \div (CAR_WIDTH * 4))
            ELSE IF dist_to_target < 10 * Fine THEN 0
            ELSE max_speed * Fine
        hide_target_ref ==
            IF fsm.current_state = "HIDE" THEN fsm.current_hide_target ELSE None
        cover == cover_obstacle(hide_target_ref, obsts)
        avoidance == avoidance_dx(car_center_x, obsts, 1, cover)
        \* strength > 0.01 for some obstacle
        avoidance_active ==
            \E i \in 1..Len(obsts) :
                10 * avoidance_strength(car_center_x, obsts, i, cover)
                    > base_avoidance_radius
        norm_av_dx == Sign(avoidance)
        opposition_dot == norm_target_dx * norm_av_dx
        \* in tenths
        avoid_weight == IF opposition_dot < 0 THEN 2 ELSE 8
        final_dx ==
            IF avoidance_active /\ 10 * Abs(avoidance) > base_avoidance_radius
            THEN Sign(norm_target_dx * (10 - avoid_weight) + norm_av_dx * avoid_weight)
            ELSE norm_target_dx
    IN  [car EXCEPT !.vx = final_dx * target_speed, !.vy = 0]

\* the slow-down near the hide target gives a speed that is kept exactly
SteerExact(car, fsm, move_target_pos) ==
    \/ move_target_pos = None
    \/ (max_speed * Abs(move_target_pos[1] * Fine - car.x - (CAR_WIDTH * Fine) \div 2))
           % (CAR_WIDTH * 4) = 0
    \/ fsm.current_state # "HIDE"

\* the car, the goal and the obstacles are centred on one horizontal line
InCorridor(car, move_target_pos, obsts) ==
    /\ move_target_pos # None => move_target_pos[2] = get_position(car)[2]
    /\ \A i \in 1..Len(obsts) : rect_center(obsts[i])[2] = get_position(car)[2]

\* variant for sensitivity: physics runs before the steering
step_after_physics_first(step) ==
    CASE step = "fsm" -> "physics"
      [] step = "physics" -> "steer"
      [] step = "steer" -> "idle"

\* the order of the steps of DefenderAI.update: FSM update (line 67),
\* movement calculation (71-76), physics update (79), return
step_after(step) ==
    CASE step = "fsm" -> "steer"
      [] step = "steer" -> "physics"
      [] step = "physics" -> "idle"

TickObstacleLists == {<<>>, <<Obstacle(280, 280)>>, <<Obstacle(280, 280), Obstacle(440, 280)>>}

\* top-left corners of the defender at its creation
TickStarts == {Pt(365, 280), Pt(385, 280), Pt(600, 280), Pt(968, 280)}

TickPlayers == {Pt(100, 300), Pt(550, 300), Pt(700, 300)}

\* DefenderAI.__init__(x, y) in a session with some obstacle list; the log
\* of the update in progress is kept in ret
InitTick ==
    /\ IdleGrid /\ IdleAtt
    /\ current_state = "IDLE"
    /\ patrol_points = <<>>
    /\ current_patrol_index = 0
    /\ last_target_pos = None
    /\ current_hide_target = None
    /\ state_entry_time = 0
    /\ now = 0
    /\ obstacles \in TickObstacleLists
    /\ obs = [op |-> "init"]
    /\ last_change = -1
    /\ \E p \in TickStarts :
          /\ defender = [x |-> p[1] * Fine, y |-> p[2] * Fine, vx |-> 0, vy |-> 0,
                         target_car |-> None, current_move_target |-> None]
          /\ ~Overlaps(defender, obstacles)
    /\ pc = "idle"
    /\ los_start_time = None /\ winner = None
    /\ call = NoCall
    /\ ret = [done |-> FALSE, steps |-> <<>>]

\* DefenderAI.set_target(target_car)
DefenderSetTarget ==
    /\ pc = "idle" /\ defender.target_car = None
    /\ defender' = [defender EXCEPT !.target_car = <<"player">>]
    /\ UNCHANGED <<pc, los_start_time, winner>>
    /\ UNCHANGED fnVars /\ UNCHANGED gridVars /\ UNCHANGED fsmVars /\ UNCHANGED attVars

\* DefenderAI.set_patrol_points(points), between two updates
TickSetPatrolPoints == pc = "idle" /\ DefenderSetPatrolPoints

\* DefenderAI.update(obstacles) is called, a frame after the last one: with
\* no target the car is stopped and the call returns, otherwise the FSM
\* update is the first step
DefenderUpdateCall ==
    /\ pc = "idle"
    /\ \E d \in TickSteps, player_pos \in TickPlayers :
          /\ now + d <= MaxTime
          /\ now' = now + d
          /\ call' = [fn |-> "DefenderAI.update", player_pos |-> player_pos,
                      before |-> defender]
    /\ IF defender.target_car = None
       THEN /\ defender' = [defender EXCEPT !.vx = 0, !.vy = 0]
            /\ pc' = "idle"
            /\ ret' = [done |-> TRUE, steps |-> <<>>]
       ELSE /\ pc' = "fsm"
            /\ ret' = [done |-> FALSE, steps |-> <<>>]
            /\ UNCHANGED defender
    /\ UNCHANGED <<current_state, patrol_points, current_patrol_index,
                   last_target_pos, current_hide_target, state_entry_time,
                   obstacles, obs, last_change>>
    /\ UNCHANGED <<los_start_time, winner>>
    /\ UNCHANGED gridVars /\ UNCHANGED attVars

\* what the update in progress has done so far
Logged(step, fields) ==
    ret' = [f \in DOMAIN ret \cup DOMAIN fields |->
               IF f = "steps" THEN Append(ret.steps, step)
               ELSE IF f = "done" THEN pc' = "idle"
               ELSE IF f \in DOMAIN fields THEN fields[f] ELSE ret[f]]

\* self.current_move_target = self.fsm.update(self, self.target_car, obstacles)
FsmStep ==
    /\ pc = "fsm"
    /\ OnLattice(defender)
    /\ \E ranked \in Rankings(candidate_obstacles(get_position(defender),
                                                 call.player_pos, obstacles)) :
          \E r \in {update(Self, get_position(defender), call.player_pos,
                           obstacles, now, ranked)} :
              /\ SetSelf(r.self)
              /\ NoteChange(r.self)
              /\ obs' = [op |-> "tick", t |-> now, target |-> r.target]
              /\ defender' = [defender EXCEPT !.current_move_target = r.target]
              /\ pc' = step_after("fsm")
              /\ Logged("fsm", [goal |-> r.target])
    /\ UNCHANGED <<now, obstacles, call, los_start_time, winner>>
    /\ UNCHANGED gridVars /\ UNCHANGED attVars

\* the movement calculation: calculate_movement_velocity towards the FSM's
\* target, or a stop when there is none
SteerStep ==
    /\ pc = "steer"
    /\ InCorridor(defender, defender.current_move_target, obstacles)
    /\ SteerExact(defender, Self, defender.current_move_target)
    /\ \E steered \in {calculate_movement_velocity(defender, Self,
                           defender.current_move_target, obstacles)} :
          /\ defender' = steered
          /\ pc' = step_after("steer")
          /\ Logged("steer", [from_goal |-> defender.current_move_target,
                              velocity |-> <<steered.vx, steered.vy>>])
    /\ UNCHANGED <<call, los_start_time, winner>>
    /\ UNCHANGED gridVars /\ UNCHANGED fsmVars /\ UNCHANGED attVars

\* self.update_physics(obstacles)
PhysicsStep ==
    /\ pc = "physics"
    /\ \E moved \in {update_physics([x |-> defender.x, y |-> defender.y,
                                     vx |-> defender.vx, vy |-> defender.vy],
                                    obstacles)} :
          /\ defender' = [defender EXCEPT !.x = moved.x, !.y = moved.y,
                                          !.vx = moved.vx, !.vy = moved.vy]
          /\ pc' = step_after("physics")
          /\ Logged("physics", [applied |-> <<defender.vx, defender.vy>>,
                                at |-> <<defender.x, defender.y>>])
    /\ UNCHANGED <<call, los_start_time, winner>>
    /\ UNCHANGED gridVars /\ UNCHANGED fsmVars /\ UNCHANGED attVars

NextTick ==
    \/ DefenderSetTarget \/ TickSetPatrolPoints \/ DefenderUpdateCall
    \/ FsmStep \/ SteerStep \/ PhysicsStep
SpecTick == InitTick /\ [][NextTick]_vars

\* an update with a target has returned
TickDone == call.fn = "DefenderAI.update" /\ pc = "idle" /\ ret.steps # <<>>

-----------------------------------------------------------------------------
(* main.py: game_loop in hider mode (the AI chases, the player hides).     *)
(* A frame reads the clock, moves the cars and tests the line of sight     *)
(* between their new positions, which are drawn from small sets.  The      *)
(* timer los_start_time is None or the one-element tuple of a clock        *)
(* reading (the code tests "is None", so a reading of 0 is a time).        *)
LOS_TIMER_DURATION == 1500

MaxGameTime == 2500

GameObstacles == <<Obstacle(280, 280)>>

ChaserPositions == {Pt(100, 300), Pt(100, 100)}

HiderPositions == {Pt(500, 300), Pt(500, 100)}

\* variant for sensitivity: a frame without line of sight leaves the timer
timer_when_blocked_kept(timer) == timer

\* else: los_start_time = None
timer_when_blocked(timer) == None

\* setup_game("hider"): game_objects['los_start_time'] = None
InitGame ==
    /\ IdleFn /\ IdleGrid /\ IdleAtt
    /\ current_state = "IDLE"
    /\ patrol_points = <<>>
    /\ current_patrol_index = 0
    /\ last_target_pos = None
    /\ current_hide_target = None
    /\ state_entry_time = 0
    /\ now = 0
    /\ obstacles = GameObstacles
    /\ obs = [op |-> "init", clear_since |-> -1, broken |-> FALSE]
    /\ last_change = -1
    /\ defender = None
    /\ pc = "idle"
    /\ los_start_time = None
    /\ winner = None

\* one pass of the while loop of game_loop, up to the game-over check of
\* the hider mode
Frame ==
    /\ winner = None
    /\ \E d \in TickSteps, chaser_pos \in ChaserPositions, hider_pos \in HiderPositions :
          \E current_ticks \in {now + d} :
          \E los_blocked \in {check_line_of_sight(chaser_pos, hider_pos, obstacles)} :
              /\ current_ticks <= MaxGameTime
              /\ now' = current_ticks
              /\ IF /\ ~los_blocked
                    /\ Dist2(chaser_pos, hider_pos)
                           <= SCREEN_WIDTH * SCREEN_WIDTH + SCREEN_HEIGHT * SCREEN_HEIGHT
                 THEN IF los_start_time = None
                      THEN /\ los_start_time' = <<current_ticks>>
                           /\ UNCHANGED winner
                      ELSE /\ winner' = IF current_ticks - los_start_time[1]
                                              >= LOS_TIMER_DURATION
                                        THEN <<"chaser">> ELSE winner
                           /\ UNCHANGED los_start_time
                 ELSE /\ los_start_time' = timer_when_blocked(los_start_time)
                      /\ UNCHANGED winner
              \* the history of the line of sight: since when it has been
              \* clear in every frame, and whether it was ever lost
              /\ obs' = [op |-> "frame", t |-> current_ticks,
                         chaser_pos |-> chaser_pos, hider_pos |-> hider_pos,
                         los_blocked |-> los_blocked,
                         clear_since |-> IF los_blocked THEN -1
                                         ELSE IF obs.clear_since = -1
                                         THEN current_ticks ELSE obs.clear_since,
                         broken |-> obs.broken
                                    \/ (los_blocked /\ obs.clear_since # -1)]
    /\ UNCHANGED <<current_state, patrol_points, current_patrol_index,
                   last_target_pos, current_hide_target, state_entry_time,
                   obstacles, last_change>>
    /\ UNCHANGED <<defender, pc>>
    /\ UNCHANGED fnVars /\ UNCHANGED gridVars /\ UNCHANGED attVars

NextGame == Frame
SpecGame == InitGame /\ [][NextGame]_vars

\* C35: in hider mode the chaser is the winner only in a frame in which
\* the line of sight has been clear in every frame since the timer was
\* started and the clock reads at least 1500 ms more than in the frame that
\* started it; a frame with the line of sight blocked sets the timer to
\* None, so the timer is always the time of the first frame of the present
\* unbroken run of clear frames.
C35_SustainedLineOfSight ==
    /\ winner # None =>
          /\ obs.op = "frame" /\ ~obs.los_blocked
          /\ obs.clear_since # -1
          /\ obs.t - obs.clear_since >= LOS_TIMER_DURATION
    /\ (obs.op = "frame" /\ obs.los_blocked) => los_start_time = None
    /\ (obs.op = "frame" /\ ~obs.los_blocked) => los_start_time = <<obs.clear_since>>
    /\ obs.op = "init" => los_start_time = None

\* the chaser wins after the line of sight was lost once and regained
C35_Witness ==
    /\ winner = <<"chaser">>
    /\ obs.broken
    /\ obs.t - obs.clear_since >= LOS_TIMER_DURATION
    /\ obs.clear_since > 0

\* a frame more than 1500 ms after the first clear one, the line of sight
\* lost in between: no winner
C35_WitnessInterrupted ==
    /\ winner = None
    /\ obs.op = "frame" /\ ~obs.los_blocked /\ obs.broken
    /\ obs.t >= LOS_TIMER_DURATION + 250
    /\ obs.t - obs.clear_since < LOS_TIMER_DURATION

=============================================================================
